---------------------------- MODULE Spec2Model ----------------------------
(***************************************************************************)
(* Model of the content-collection query and series-navigation utilities  *)
(* of astro-zero (src/src/utils/entries.ts and its duplicates in          *)
(* src/src/utils/content.utils.ts), of the reading-time, breadcrumb and    *)
(* slug utilities (content.utils.ts, commonFunctions.ts) and of the        *)
(* client-side ThemeService (theme.client.ts).                             *)
(*                                                                         *)
(* A collection is a JavaScript array of entries.  Arrays live in a small *)
(* heap (a sequence of arrays, the address is the index) so that the      *)
(* difference between Array.prototype.sort, which sorts its receiver in   *)
(* place, and spread/filter/slice, which allocate, is part of the model.  *)
(* The caller's array is at address 1.                                    *)
(***************************************************************************)
EXTENDS Integers, Sequences, FiniteSets, TLC

VARIABLES
    entries,    \* the caller's entry array (heap address 1) as it is now
    loaded,     \* the entry array as the content loader handed it over
    prod,       \* import.meta.env.PROD
    call,       \* the last operation called, with its arguments
    result,     \* what that operation returned
    service,    \* the fields of the ThemeService singleton
    browser     \* the page: documentElement attributes, the
                \* localStorage item, the media query and its listeners

vars == <<entries, loaded, prod, call, result, service, browser>>

(***************************************************************************)
(* Bounds of the model.                                                    *)
(***************************************************************************)
MaxPageLen == 3      \* longest list handed to paginateEntries
MaxPage == 5         \* largest page number asked for
MinPage == 2         \* pages are drawn from -MinPage .. MaxPage
MaxPerPage == 3      \* largest perPage
MinPerPage == 2      \* perPage is drawn from -MinPerPage .. MaxPerPage
MaxSortLen == 3      \* longest list handed to sortEntriesByDate
MaxDate == 2         \* dates (valueOf) are drawn from 1 .. MaxDate
MaxDraftLen == 3     \* longest list handed to filterDrafts
MaxSeriesLen == 3    \* longest collection of the series operations
MaxIdLen == 4        \* longest id handed to isSubpost and getParentId
MaxFrameLen == 3     \* longest collection a sequence of operations runs on
MaxLimit == 2        \* largest limit handed to getRelatedEntries
YearLength == 2      \* dates (valueOf) per calendar year
MaxNavLen == 3       \* longest list of posts the navigation runs on
MaxRelatedLen == 3   \* longest list handed to getRelatedEntries
MaxTagsLen == 3      \* longest list handed to getUniqueTags
FirstYear == 9       \* the calendar year of date 0
MaxTextLen == 4      \* longest text over the whole alphabet
MaxWords == 451      \* most words of a text of plain words
MaxPathLen == 6      \* longest pathname handed to getBreadcrumbsFromPath
MaxSlugLen == 5      \* longest text handed to slugify

(***************************************************************************)
(* JavaScript values.                                                      *)
(***************************************************************************)
\* number | undefined (data.order)
Undefined == [def |-> FALSE, v |-> 0]
Num(n) == [def |-> TRUE, v |-> n]
\* x ?? 0
OrZero(x) == IF x.def THEN x.v ELSE 0

\* a JavaScript number that may be NaN or +Infinity (page arithmetic)
JsNum(n) == [k |-> "num", n |-> n]
JsInf == [k |-> "inf", n |-> 0]
JsNaN == [k |-> "nan", n |-> 0]

\* a field value of data[field]: a string, number or boolean with the text
\* toString() gives, or null or undefined
Str(x) == [t |-> "string", s |-> x]
NullValue == [t |-> "null", s |-> ""]
UndefinedValue == [t |-> "undefined", s |-> ""]

\* an absent (null / undefined) or present entry
Null == <<>>
Some(e) == <<e>>

\* new ThemeService(): the field initialisers
NewThemeService ==
    [darkTheme |-> "dark", lightTheme |-> "light", defaultTheme |-> "auto",
     listeners |-> {}, initialized |-> FALSE]

\* a page without theme attributes and stored theme, light preferred, no
\* listener on the media query
BlankPage ==
    [darkThemeAttr |-> Null, lightThemeAttr |-> Null, themeAttr |-> Null,
     storage |-> Null, prefersDark |-> FALSE, changeListeners |-> 0]

\* string[] | null | undefined (data.tags)
TagList(s) == [k |-> "array", items |-> s]
TagsNull == [k |-> "null", items |-> <<>>]
TagsUndefined == [k |-> "undefined", items |-> <<>>]

\* An entry: id is a string (a sequence of characters), data.date is the
\* date's valueOf(), data.draft is "true", "false" or "undefined",
\* data.category is a field value.
Entry(id, date, order, draft, tags, category) ==
    [id |-> id, date |-> date, order |-> order, draft |-> draft,
     tags |-> tags, category |-> category]

\* !entry.data.draft
NotDraft(e) == e.draft # "true"

(***************************************************************************)
(* Sequences.                                                              *)
(***************************************************************************)
SeqsUpTo(S, n) == UNION {[1..k -> S] : k \in 0..n}

Range(s) == {s[i] : i \in DOMAIN s}

Min(a, b) == IF a <= b THEN a ELSE b
Max(a, b) == IF a >= b THEN a ELSE b

RECURSIVE Concat(_)
Concat(ss) == IF ss = <<>> THEN <<>> ELSE Head(ss) \o Concat(Tail(ss))

\* s is t with some elements left out, order kept
RECURSIVE IsSubSeq(_, _)
IsSubSeq(s, t) ==
    IF s = <<>> THEN TRUE
    ELSE IF t = <<>> THEN FALSE
    ELSE IF Head(s) = Head(t) THEN IsSubSeq(Tail(s), Tail(t))
    ELSE IsSubSeq(s, Tail(t))

\* the positions of s as a bag: s and t are permutations of each other
IsPermutation(s, t) ==
    /\ Len(s) = Len(t)
    /\ \A x \in Range(s) \cup Range(t) :
          Cardinality({i \in DOMAIN s : s[i] = x})
              = Cardinality({i \in DOMAIN t : t[i] = x})

(***************************************************************************)
(* The heap and the Array built-ins.                                       *)
(***************************************************************************)
\* the heap a call starts in: the caller's array alone
HeapOf(xs) == <<xs>>

\* a new array
Alloc(h, xs) == [h |-> Append(h, xs), a |-> Len(h) + 1]

\* [...arr]
ArraySpread(h, a) == Alloc(h, h[a])

\* arr.filter(P), kept the elements of the receiver that satisfy P
ArrayFilter(h, kept) == Alloc(h, kept)

\* Array.prototype.slice's clamping of one relative index
\* (ToIntegerOrInfinity of NaN is 0, of +Infinity is len)
SliceIndex(x, len) ==
    IF x.k = "nan" THEN 0
    ELSE IF x.k = "inf" THEN len
    ELSE IF x.n < 0 THEN Max(len + x.n, 0)
    ELSE Min(x.n, len)

\* arr.slice(start, end), start and end JavaScript numbers
ArraySlice(h, a, start, end) ==
    LET len == Len(h[a])
        k == SliceIndex(start, len)
        final == SliceIndex(end, len)
    IN Alloc(h, IF k < final THEN SubSeq(h[a], k + 1, final) ELSE <<>>)

\* (a, b) => b.data.date.valueOf() - a.data.date.valueOf()
CmpDateDesc(a, b) == b.date - a.date

\* (a, b) => (a.data.order ?? 0) - (b.data.order ?? 0)
CmpOrderAsc(a, b) == OrZero(a.order) - OrZero(b.order)

\* order ascending, then date (mutant of CmpDateThenOrder)
CmpOrderBeforeDate(a, b) ==
    LET orderDiff == OrZero(a.order) - OrZero(b.order)
    IN IF orderDiff # 0 THEN orderDiff ELSE a.date - b.date

\* the comparator of getSubpostsForParent: date ascending, then order
CmpDateThenOrder(a, b) ==
    LET dateDiff == a.date - b.date
    IN IF dateDiff # 0 THEN dateDiff ELSE OrZero(a.order) - OrZero(b.order)

\* date descending alone, the score ignored (mutant of CmpScoreThenDate)
CmpDateIgnoringScore(a, b) == b.entry.date - a.entry.date

\* the comparator of getRelatedEntries on {entry, score}: score
\* descending, then date descending
CmpScoreThenDate(a, b) ==
    IF b.score # a.score THEN b.score - a.score
    ELSE b.entry.date - a.entry.date

\* the decimal digit of d in 0..9, and the value of a decimal digit
Digit(d) ==
    CASE d = 0 -> "0" [] d = 1 -> "1" [] d = 2 -> "2" [] d = 3 -> "3"
      [] d = 4 -> "4" [] d = 5 -> "5" [] d = 6 -> "6" [] d = 7 -> "7"
      [] d = 8 -> "8" [] d = 9 -> "9"

DigitValue(c) == CHOOSE d \in 0..9 : Digit(d) = c

\* n.toString() for a natural number n: its decimal digits
RECURSIVE NumberToString(_)
NumberToString(n) ==
    IF n < 10 THEN <<Digit(n)>>
    ELSE Append(NumberToString(n \div 10), Digit(n % 10))

\* parseInt(str) for a string of decimal digits
RECURSIVE ParseInt(_)
ParseInt(str) ==
    IF Len(str) = 1 THEN DigitValue(str[1])
    ELSE 10 * ParseInt(SubSeq(str, 1, Len(str) - 1)) + DigitValue(str[Len(str)])

\* the UTF-16 code unit of a character
CodeUnit(c) ==
    CASE c = "/" -> 47
      [] c \in {"0", "1", "2", "3", "4", "5", "6", "7", "8", "9"} ->
            48 + DigitValue(c)
      [] c = "A" -> 65
      [] c = "B" -> 66
      [] c = "a" -> 97
      [] c = "b" -> 98
      [] c = "c" -> 99

\* x < y on strings (sequences of characters): the comparison of the code
\* units at the first position where they differ, a proper prefix first
RECURSIVE StringLess(_, _)
StringLess(x, y) ==
    IF y = <<>> THEN FALSE
    ELSE IF x = <<>> THEN TRUE
    ELSE IF CodeUnit(Head(x)) # CodeUnit(Head(y))
         THEN CodeUnit(Head(x)) < CodeUnit(Head(y))
    ELSE StringLess(Tail(x), Tail(y))

\* the comparison of sort() without a comparator, on strings
CmpDefault(a, b) ==
    IF StringLess(a, b) THEN -1 ELSE IF StringLess(b, a) THEN 1 ELSE 0

\* the year strings compared as strings, descending (mutant of CmpYearDesc)
CmpYearStringDesc(a, b) == CmpDefault(b[1], a[1])

\* ([yearA], [yearB]) => parseInt(yearB) - parseInt(yearA) on [year, entries]
CmpYearDesc(a, b) == ParseInt(b[1]) - ParseInt(a[1])

\* the comparator functions handed to Array.prototype.sort, by name
Compare(cmp, a, b) ==
    CASE cmp = "dateDesc" -> CmpDateDesc(a, b)
      [] cmp = "orderAsc" -> CmpOrderAsc(a, b)
      [] cmp = "dateThenOrder" -> CmpDateThenOrder(a, b)
      [] cmp = "scoreThenDate" -> CmpScoreThenDate(a, b)
      [] cmp = "yearDesc" -> CmpYearDesc(a, b)
      [] cmp = "default" -> CmpDefault(a, b)

\* the stable sort of s under the comparator cmp (ECMAScript 2019): an
\* element moves behind exactly the elements that compare smaller and the
\* elements that compare equal and stood before it
SortedSeq(s, cmp) ==
    LET Before(j, i) == \/ Compare(cmp, s[j], s[i]) < 0
                        \/ Compare(cmp, s[j], s[i]) = 0 /\ j < i
        Rank(i) == Cardinality({j \in DOMAIN s : Before(j, i)}) + 1
    IN [k \in DOMAIN s |-> s[CHOOSE i \in DOMAIN s : Rank(i) = k]]

\* arr.sort(cmp): sorts the receiver in place and returns it
ArraySort(h, a, cmp) ==
    [h |-> [h EXCEPT ![a] = SortedSeq(h[a], cmp)], a |-> a]

\* expr.sort(cmp) on the array an expression has just produced
SortOf(r, cmp) == ArraySort(r.h, r.a, cmp)

\* return expr: the heap as the expression left it and the array it denotes
Returned(r) == [h |-> r.h, v |-> r.h[r.a]]

(***************************************************************************)
(* Pagination: paginateEntries.                                            *)
(***************************************************************************)
\* Math.ceil(totalEntries / perPage), totalEntries >= 0
CeilDiv(totalEntries, perPage) ==
    IF perPage > 0 THEN JsNum((totalEntries + perPage - 1) \div perPage)
    ELSE IF perPage < 0 THEN JsNum(-(totalEntries \div (-perPage)))
    ELSE IF totalEntries = 0 THEN JsNaN
    ELSE JsInf

\* Math.max(1, Math.min(page, totalPages))
ClampPage(page, totalPages) ==
    IF totalPages.k = "nan" THEN JsNaN
    ELSE IF totalPages.k = "inf" THEN JsNum(Max(1, page))
    ELSE JsNum(Max(1, Min(page, totalPages.n)))

\* (currentPage - 1) * perPage
StartIndex(currentPage, perPage) ==
    IF currentPage.k = "nan" THEN JsNaN ELSE JsNum((currentPage.n - 1) * perPage)

\* a slice that takes one element too many (mutant of EndIndex)
EndIndexInclusive(startIndex, perPage) ==
    IF startIndex.k = "nan" THEN JsNaN ELSE JsNum(startIndex.n + perPage + 1)

\* startIndex + perPage
EndIndex(startIndex, perPage) ==
    IF startIndex.k = "nan" THEN JsNaN ELSE JsNum(startIndex.n + perPage)

\* a < b on JavaScript numbers (either may be NaN, b may be +Infinity)
JsLess(a, b) ==
    IF a.k = "nan" \/ b.k = "nan" THEN FALSE
    ELSE IF a.k = "inf" THEN FALSE
    ELSE IF b.k = "inf" THEN TRUE
    ELSE a.n < b.n

paginateEntries(h, a, page, perPage) ==
    LET totalEntries == Len(h[a])
        totalPages == CeilDiv(totalEntries, perPage)
        currentPage == ClampPage(page, totalPages)
        startIndex == StartIndex(currentPage, perPage)
        endIndex == EndIndex(startIndex, perPage)
        sl == ArraySlice(h, a, startIndex, endIndex)
    IN [h |-> sl.h,
        v |-> [outcome |-> "return",
               entries |-> sl.h[sl.a],
               currentPage |-> currentPage,
               totalPages |-> totalPages,
               totalEntries |-> totalEntries,
               hasNext |-> JsLess(currentPage, totalPages),
               hasPrev |-> JsLess(JsNum(1), currentPage)]]


(***************************************************************************)
(* Pagination as a state machine: a list is loaded, paginateEntries is     *)
(* called on it with any page and perPage.                                 *)
(***************************************************************************)
NoCall == [op |-> "none"]

\* the elements of the paginated lists (paginateEntries is generic in T)
PageItems ==
    {Entry(<<c>>, 1, Undefined, "false", TagsUndefined, Str("travel")) :
        c \in {"a", "b", "c"}}

InitPage ==
    /\ entries \in SeqsUpTo(PageItems, MaxPageLen)
    /\ loaded = entries
    /\ prod = FALSE
    /\ call = NoCall
    /\ result = <<>>
    /\ service = NewThemeService
    /\ browser = BlankPage

\* paginateEntries(entries, page, perPage)
Paginate(page, perPage) ==
    LET r == paginateEntries(HeapOf(entries), 1, page, perPage)
    IN /\ entries' = r.h[1]
       /\ call' = [op |-> "paginateEntries", page |-> page, perPage |-> perPage]
       /\ result' = r.v
       /\ UNCHANGED <<loaded, prod, service, browser>>

PaginateEntries ==
    \E page \in (-MinPage)..MaxPage, perPage \in (-MinPerPage)..MaxPerPage :
        Paginate(page, perPage)

NextPage == PaginateEntries

SpecPage == InitPage /\ [][NextPage]_vars

\* the entries of pages 1..totalPages of xs, in order
AllPages(xs, totalPages, perPage) ==
    Concat([p \in 1..totalPages |->
                paginateEntries(HeapOf(xs), 1, p, perPage).v.entries])

\* C1: with perPage >= 1 and any integer page, the returned slice has at
\* most perPage elements, and the slices of pages 1..totalPages, one after
\* the other, are exactly the list.
C1_PageSizeAndCover ==
    (call.op = "paginateEntries" /\ call.perPage >= 1) =>
        /\ Len(result.entries) <= call.perPage
        /\ result.totalPages.k = "num"
        /\ AllPages(loaded, result.totalPages.n, call.perPage) = loaded

\* C1 witness: a list of several pages, asked for a page beyond the last
\* one, which is clamped to the last page.
C1_Witness ==
    /\ call.op = "paginateEntries"
    /\ call.perPage = 2
    /\ Len(loaded) = 3
    /\ Cardinality(Range(loaded)) = 3
    /\ call.page > 2
    /\ result.totalPages = JsNum(2)
    /\ result.entries = <<loaded[3]>>

\* C2: with perPage >= 1, totalPages = max(1, ceil(totalEntries / perPage))
\* and 1 <= currentPage <= totalPages, the empty list included.
C2_TotalPagesAtLeastOne ==
    (call.op = "paginateEntries" /\ call.perPage >= 1) =>
        /\ result.totalPages
              = JsNum(Max(1, (Len(loaded) + call.perPage - 1) \div call.perPage))
        /\ result.currentPage.k = "num"
        /\ 1 <= result.currentPage.n
        /\ result.currentPage.n <= result.totalPages.n

\* C3: a call with perPage <= 0 ends in an InvalidArgument error and
\* returns no pagination result.
C3_NonPositivePerPageFails ==
    (call.op = "paginateEntries" /\ call.perPage <= 0) =>
        result.outcome = "InvalidArgument"

(***************************************************************************)
(* Sorting: sortEntriesByDate.                                             *)
(***************************************************************************)
\* [...entries].reverse().sort(...): equal dates come out in reverse input
\* order (mutant of sortEntriesByDate)
sortEntriesByDateReversed(h, a) ==
    LET c == ArraySpread(h, a)
        rev == [c.h EXCEPT ![c.a] = [i \in DOMAIN @ |-> @[Len(@) + 1 - i]]]
        s == ArraySort(rev, c.a, "dateDesc")
    IN [h |-> s.h, v |-> s.h[s.a]]

\* entries.sort(...) without the copy: sorts the caller's array (mutant of
\* sortEntriesByDate)
sortEntriesByDateInPlace(h, a) ==
    LET s == ArraySort(h, a, "dateDesc")
    IN [h |-> s.h, v |-> s.h[s.a]]

sortEntriesByDate(h, a) ==
    LET c == ArraySpread(h, a)
        s == ArraySort(c.h, c.a, "dateDesc")
    IN [h |-> s.h, v |-> s.h[s.a]]

\* the entries sorted: three ids, every date
SortItems ==
    {Entry(<<c>>, d, Undefined, "false", TagsUndefined, Str("travel")) :
        c \in {"a", "b", "c"}, d \in 1..MaxDate}

InitSort ==
    /\ entries \in SeqsUpTo(SortItems, MaxSortLen)
    /\ loaded = entries
    /\ prod = FALSE
    /\ call = NoCall
    /\ result = <<>>
    /\ service = NewThemeService
    /\ browser = BlankPage

\* sortEntriesByDate(entries)
SortLoaded ==
    LET r == sortEntriesByDate(HeapOf(entries), 1)
    IN /\ entries' = r.h[1]
       /\ call' = [op |-> "sortEntriesByDate", arg |-> entries, again |-> FALSE]
       /\ result' = r.v
       /\ UNCHANGED <<loaded, prod, service, browser>>

\* sortEntriesByDate(sorted), sorted the list a call of sortEntriesByDate
\* returned
SortSorted ==
    /\ call.op = "sortEntriesByDate"
    /\ LET r == sortEntriesByDate(HeapOf(result), 1)
       IN /\ call' = [op |-> "sortEntriesByDate", arg |-> result, again |-> TRUE]
          /\ result' = r.v
          /\ UNCHANGED <<entries, loaded, prod, service, browser>>

NextSort == SortLoaded \/ SortSorted

SpecSort == InitSort /\ [][NextSort]_vars

\* the elements of s that carry date d, in the order of s
WithDate(s, d) == SelectSeq(s, LAMBDA e : e.date = d)

\* C4: sortEntriesByDate returns a permutation of its argument with dates
\* non-increasing, and the entries of each date keep their input order.
C4_SortedStablePermutation ==
    call.op = "sortEntriesByDate" =>
        /\ IsPermutation(result, call.arg)
        /\ \A i, j \in DOMAIN result : i < j => result[i].date >= result[j].date
        /\ \A d \in 1..MaxDate : WithDate(result, d) = WithDate(call.arg, d)

\* C4 witness: a newest entry standing last moves to the front past two
\* different entries of one date, which keep their order.
C4_Witness ==
    /\ call.op = "sortEntriesByDate"
    /\ Len(call.arg) = 3
    /\ call.arg[1].date = 1 /\ call.arg[2].date = 1 /\ call.arg[3].date = 2
    /\ call.arg[1].id # call.arg[2].id
    /\ result = <<call.arg[3], call.arg[1], call.arg[2]>>

\* C5: sorting an already sorted list returns it unchanged, element by
\* element.
C5_SortIdempotent ==
    (call.op = "sortEntriesByDate" /\ call.again) => result = call.arg

\* C5 witness: the second sort of a list that the first sort had to reorder
\* and that holds two different entries of one date.
C5_Witness ==
    /\ call.op = "sortEntriesByDate"
    /\ call.again
    /\ call.arg # loaded
    /\ result = call.arg
    /\ \E i, j \in DOMAIN result :
          i < j /\ result[i].date = result[j].date /\ result[i].id # result[j].id

(***************************************************************************)
(* Draft filtering: filterDrafts.                                          *)
(***************************************************************************)
\* entry.data.draft === false in place of !entry.data.draft (mutant of
\* filterDrafts)
filterDraftsStrict(h, a) ==
    IF prod
    THEN LET f == ArrayFilter(h, SelectSeq(h[a], LAMBDA e : e.draft = "false"))
         IN [h |-> f.h, v |-> f.h[f.a]]
    ELSE [h |-> h, v |-> h[a]]

filterDrafts(h, a) ==
    IF prod
    THEN LET f == ArrayFilter(h, SelectSeq(h[a], NotDraft))
         IN [h |-> f.h, v |-> f.h[f.a]]
    ELSE [h |-> h, v |-> h[a]]

\* the entries filtered: three ids, draft true, false or missing
DraftItems ==
    {Entry(<<c>>, 1, Undefined, d, TagsUndefined, Str("travel")) :
        c \in {"a", "b", "c"}, d \in {"true", "false", "undefined"}}

InitDrafts ==
    /\ entries \in SeqsUpTo(DraftItems, MaxDraftLen)
    /\ loaded = entries
    /\ prod \in BOOLEAN
    /\ call = NoCall
    /\ result = <<>>
    /\ service = NewThemeService
    /\ browser = BlankPage

FilterDrafts ==
    LET r == filterDrafts(HeapOf(entries), 1)
    IN /\ entries' = r.h[1]
       /\ call' = [op |-> "filterDrafts"]
       /\ result' = r.v
       /\ UNCHANGED <<loaded, prod, service, browser>>

NextDrafts == FilterDrafts

SpecDrafts == InitDrafts /\ [][NextDrafts]_vars

\* C7: in production filterDrafts returns, in input order, exactly the
\* entries whose draft flag is not true; otherwise it returns every entry
\* of the input in input order.
C7_FilterDrafts ==
    call.op = "filterDrafts" =>
        IF prod
        THEN /\ IsSubSeq(result, loaded)
             /\ \A i \in DOMAIN result : result[i].draft # "true"
             /\ Len(result)
                   = Cardinality({i \in DOMAIN loaded : loaded[i].draft # "true"})
        ELSE result = loaded

\* C7 witness: a production call that drops a draft standing between an
\* entry without a draft flag and an entry with draft false.
C7_Witness ==
    /\ call.op = "filterDrafts"
    /\ prod
    /\ Len(loaded) = 3
    /\ loaded[1].draft = "undefined"
    /\ loaded[2].draft = "true"
    /\ loaded[3].draft = "false"
    /\ result = <<loaded[1], loaded[3]>>

\* no id is a subpost id (mutant of isSubpost)
isSubpostNever(entryId) == FALSE

(***************************************************************************)
(* Series: isSubpost, getParentId, getSubpostsForParent.                   *)
(***************************************************************************)
\* entryId.includes('/')
isSubpost(entryId) == \E i \in DOMAIN entryId : entryId[i] = "/"

\* str.split('/')
RECURSIVE SplitSlash(_)
SplitSlash(str) ==
    IF \A i \in DOMAIN str : str[i] # "/" THEN <<str>>
    ELSE LET i == CHOOSE k \in DOMAIN str :
                      /\ str[k] = "/"
                      /\ \A m \in 1..(k - 1) : str[m] # "/"
         IN <<SubSeq(str, 1, i - 1)>> \o SplitSlash(SubSeq(str, i + 1, Len(str)))

\* subpostId.split('/').pop(): the last segment (mutant of getParentId)
getParentIdLast(subpostId) ==
    SplitSlash(subpostId)[Len(SplitSlash(subpostId))]

\* subpostId.split('/')[0]
getParentId(subpostId) == SplitSlash(subpostId)[1]

\* the filter of getSubpostsForParent
IsSubpostOf(entry, parentId) ==
    /\ NotDraft(entry)
    /\ isSubpost(entry.id)
    /\ getParentId(entry.id) = parentId

\* sorted by the order field alone (mutant of getSubpostsForParent)
getSubpostsForParentByOrder(h, a, parentId) ==
    LET f == ArrayFilter(h, SelectSeq(h[a], LAMBDA e : IsSubpostOf(e, parentId)))
        s == ArraySort(f.h, f.a, "orderAsc")
    IN [h |-> s.h, v |-> s.h[s.a]]

\* the negation of the draft test lost (mutant of getSubpostsForParent)
getSubpostsForParentDrafts(h, a, parentId) ==
    LET f == ArrayFilter(h, SelectSeq(h[a], LAMBDA e :
                  /\ ~NotDraft(e)
                  /\ isSubpost(e.id)
                  /\ getParentId(e.id) = parentId))
        s == ArraySort(f.h, f.a, "dateThenOrder")
    IN [h |-> s.h, v |-> s.h[s.a]]

getSubpostsForParent(h, a, parentId) ==
    Returned(SortOf(
        ArrayFilter(h, SelectSeq(h[a], LAMBDA e : IsSubpostOf(e, parentId))),
        "dateThenOrder"))

\* the lists of at most n entries of items with pairwise different ids (ids
\* are unique within a collection)
RECURSIVE UniqueLists(_, _)
UniqueLists(items, n) ==
    IF n = 0 THEN {<<>>}
    ELSE LET shorter == UniqueLists(items, n - 1)
             longest == {s \in shorter : Len(s) = n - 1}
             Fresh(s) == {e \in items : \A i \in DOMAIN s : s[i].id # e.id}
         IN shorter \cup UNION {{Append(s, e) : e \in Fresh(s)} : s \in longest}

\* the collections of the series operations: a parent s, its subposts s/1
\* and s/2 of any date, order and draft flag, a third subpost s/3 of any
\* date, and a subpost t/1 of another series
SeriesItems ==
    {Entry(<<"s">>, 1, Undefined, "false", TagsUndefined, Str("tech")),
     Entry(<<"t", "/", "1">>, 1, Undefined, "false", TagsUndefined, Str("tech"))}
    \cup {Entry(<<"s", "/", c>>, d, o, dr, TagsUndefined, Str("tech")) :
            c \in {"1", "2"}, d \in 1..MaxDate,
            o \in {Undefined, Num(1)}, dr \in {"false", "true"}}
    \cup {Entry(<<"s", "/", "3">>, d, Undefined, "false", TagsUndefined, Str("tech")) :
            d \in 1..MaxDate}

\* the parentId arguments
ParentArgs == {<<"s">>, <<"t">>, <<"u">>}

InitSeries ==
    /\ entries \in UniqueLists(SeriesItems, MaxSeriesLen)
    /\ loaded = entries
    /\ prod = FALSE
    /\ call = NoCall
    /\ result = <<>>
    /\ service = NewThemeService
    /\ browser = BlankPage

\* getSubpostsForParent(entries, parentId)
GetSubpostsForParent ==
    \E parentId \in ParentArgs :
        LET r == getSubpostsForParent(HeapOf(entries), 1, parentId)
        IN /\ entries' = r.h[1]
           /\ call' = [op |-> "getSubpostsForParent", parentId |-> parentId,
                       of |-> Null]
           /\ result' = r.v
           /\ UNCHANGED <<loaded, prod, service, browser>>

\* getSubpostsForParent(entries, getParentId(s.id)) for a subpost s of the
\* collection
GetSubpostsOfOwnParent ==
    \E i \in DOMAIN entries :
        /\ isSubpost(entries[i].id)
        /\ LET p == getParentId(entries[i].id)
               r == getSubpostsForParent(HeapOf(entries), 1, p)
           IN /\ entries' = r.h[1]
              /\ call' = [op |-> "getSubpostsForParent", parentId |-> p,
                          of |-> Some(entries[i])]
              /\ result' = r.v
              /\ UNCHANGED <<loaded, prod, service, browser>>

\* one collection is loaded and one operation is called on it
NextSeries ==
    \/ call = NoCall /\ GetSubpostsForParent
    \/ call = NoCall /\ GetSubpostsOfOwnParent

SpecSeries == InitSeries /\ [][NextSeries]_vars

\* id is parentId, a '/', and anything
StartsWithParent(id, parentId) ==
    /\ Len(id) > Len(parentId)
    /\ SubSeq(id, 1, Len(parentId)) = parentId
    /\ id[Len(parentId) + 1] = "/"

C9_SeriesClosure ==
    (call.op = "getSubpostsForParent" /\ call.of # Null) =>
        \E i \in DOMAIN result : result[i] = call.of[1]

\* C9 amended: every subpost s of the collection that is not a draft is in
\* getSubpostsForParent(entries, getParentId(s.id)).
C9_SeriesClosureNonDraft ==
    (call.op = "getSubpostsForParent" /\ call.of # Null
        /\ call.of[1].draft # "true") =>
        \E i \in DOMAIN result : result[i] = call.of[1]

\* C9 witness: the series of a non-draft subpost, in a collection that also
\* holds a subpost of another series and another subpost of the same one.
C9_Witness ==
    /\ call.op = "getSubpostsForParent"
    /\ call.of # Null
    /\ call.of[1].draft = "false"
    /\ Len(loaded) = 3
    /\ Len(result) = 2
    /\ result[2] = call.of[1]
    /\ \E i \in DOMAIN loaded : loaded[i].id = <<"t", "/", "1">>

(***************************************************************************)
(* Ids: isSubpost and getParentId on any string.                           *)
(***************************************************************************)
\* the ids: every string of at most MaxIdLen characters over a, b and /
IdStrings == SeqsUpTo({"a", "b", "/"}, MaxIdLen)

InitId ==
    /\ entries = <<>>
    /\ loaded = <<>>
    /\ prod = FALSE
    /\ call = NoCall
    /\ result = <<>>
    /\ service = NewThemeService
    /\ browser = BlankPage

\* getParentId(id); the function has no throw and no null on any path
GetParentId ==
    \E id \in IdStrings :
        /\ call' = [op |-> "getParentId", id |-> id]
        /\ result' = [outcome |-> "return", v |-> Some(getParentId(id))]
        /\ UNCHANGED <<entries, loaded, prod, service, browser>>

\* isSubpost(id)
IsSubpost ==
    \E id \in IdStrings :
        /\ call' = [op |-> "isSubpost", id |-> id]
        /\ result' = [outcome |-> "return", v |-> isSubpost(id)]
        /\ UNCHANGED <<entries, loaded, prod, service, browser>>

NextId == GetParentId \/ IsSubpost

SpecId == InitId /\ [][NextId]_vars

HasSlash(id) == \E i \in DOMAIN id : id[i] = "/"

\* seg is the text of id before its first '/'
IsTextBeforeFirstSlash(seg, id) ==
    /\ Len(seg) < Len(id)
    /\ SubSeq(id, 1, Len(seg)) = seg
    /\ id[Len(seg) + 1] = "/"
    /\ \A i \in DOMAIN seg : seg[i] # "/"

sortEntriesByOrder(h, a) ==
    LET c == ArraySpread(h, a)
        s == ArraySort(c.h, c.a, "orderAsc")
    IN [h |-> s.h, v |-> s.h[s.a]]

\* entry.data.date.getFullYear()
YearOf(date) == FirstYear + (date \div YearLength)

\* the different elements of s, each at its first occurrence
RECURSIVE FirstOccurrences(_)
FirstOccurrences(s) ==
    IF s = <<>> THEN <<>>
    ELSE LET front == FirstOccurrences(SubSeq(s, 1, Len(s) - 1))
             last == s[Len(s)]
         IN IF \E i \in DOMAIN front : front[i] = last
            THEN front
            ELSE Append(front, last)

\* the integers of S in ascending order: the order in which an object
\* enumerates its integer-like keys (for..in, Object.entries)
RECURSIVE Ascending(_)
Ascending(S) ==
    IF S = {} THEN <<>>
    ELSE LET least == CHOOSE x \in S : \A y \in S : x <= y
         IN <<least>> \o Ascending(S \ {least})

\* The keys of grouped are the strings year.toString(); being integer
\* keys, they are enumerated in ascending numeric order.  The result is the
\* array of [year, entries] pairs.
getEntriesByYearSorted(h, a) ==
    LET years == Ascending({YearOf(h[a][i].date) : i \in DOMAIN h[a]})
        \* step 1: acc[year] = [] and acc[year].push(entry)
        pushed == [i \in DOMAIN years |->
                      SelectSeq(h[a], LAMBDA e : YearOf(e.date) = years[i])]
        h1 == h \o pushed
        \* step 2: grouped[year].sort(...) on each of the new arrays
        h2 == [i \in DOMAIN h1 |->
                  IF i > Len(h) THEN SortedSeq(h1[i], "dateDesc") ELSE h1[i]]
        \* step 3: Object.entries(grouped).sort(...)
        pairs == Alloc(h2, [i \in DOMAIN years |->
                               <<NumberToString(years[i]), h2[Len(h) + i]>>])
        s == ArraySort(pairs.h, pairs.a, "yearDesc")
    IN [h |-> s.h, v |-> s.h[s.a]]

\* entry.data[field] for the fields category and draft
FieldValue(entry, field) ==
    CASE field = "category" -> entry.category
      [] field = "draft" ->
            IF entry.draft = "undefined" THEN UndefinedValue
            ELSE [t |-> "boolean", s |-> entry.draft]

\* value?.toString() || 'Uncategorized'
GroupKey(value) ==
    IF value.t \in {"null", "undefined"} \/ value.s = ""
    THEN "Uncategorized"
    ELSE value.s

\* The result is the Map as the sequence of its [key, entries] pairs in
\* insertion order.
groupEntriesBy(h, a, field) ==
    LET keys == FirstOccurrences(
                    [i \in DOMAIN h[a] |-> GroupKey(FieldValue(h[a][i], field))])
        groups == [i \in DOMAIN keys |->
                      SelectSeq(h[a], LAMBDA e :
                          GroupKey(FieldValue(e, field)) = keys[i])]
    IN [h |-> h \o groups,
        v |-> [i \in DOMAIN keys |-> <<keys[i], groups[i]>>]]

\* entries.find((entry) => entry.id === id) || null
FindById(s, id) ==
    IF \E i \in DOMAIN s : s[i].id = id
    THEN Some(s[CHOOSE i \in DOMAIN s :
                    /\ s[i].id = id
                    /\ \A j \in 1..(i - 1) : s[j].id # id])
    ELSE Null

\* an id that is not found counts as found at the first index (mutant of
\* FindIndexById)
FindIndexByIdFirst(s, id) ==
    IF \E i \in DOMAIN s : s[i].id = id
    THEN CHOOSE i \in DOMAIN s :
             /\ s[i].id = id
             /\ \A j \in 1..(i - 1) : s[j].id # id
    ELSE 1

\* entries.findIndex((entry) => entry.id === id), counted from 1; 0 for -1
FindIndexById(s, id) ==
    IF \E i \in DOMAIN s : s[i].id = id
    THEN CHOOSE i \in DOMAIN s :
             /\ s[i].id = id
             /\ \A j \in 1..(i - 1) : s[j].id # id
    ELSE 0

\* parent ? [parent, ...subposts] : subposts
ParentAndSubposts(parent, subposts) ==
    IF parent # Null
    THEN Returned(Alloc(subposts.h, parent \o subposts.v))
    ELSE subposts

\* [...subposts, parent]: the parent entry last (mutant of getSeriesEntries)
getSeriesEntriesParentLast(h, a, parentId) ==
    LET parent == FindById(h[a], parentId)
        subposts == getSubpostsForParent(h, a, parentId)
    IN IF parent # Null
       THEN LET all == Alloc(subposts.h, subposts.v \o parent)
            IN [h |-> all.h, v |-> all.h[all.a]]
       ELSE subposts

getSeriesEntries(h, a, parentId) ==
    ParentAndSubposts(FindById(h[a], parentId),
                      getSubpostsForParent(h, a, parentId))

\* s[i], or the first element when there is no index i (mutant of At)
AtOrFirst(s, i) ==
    IF i \in DOMAIN s THEN Some(s[i])
    ELSE IF s # <<>> THEN Some(s[1]) ELSE Null

\* s[i], or null when there is no index i
At(s, i) == IF i \in DOMAIN s THEN Some(s[i]) ELSE Null

getAdjacentEntriesWithSeries(h, a, currentId) ==
    IF isSubpost(currentId)
    THEN LET parentId == getParentId(currentId)
             parent == FindById(h[a], parentId)
             f == ArrayFilter(h, SelectSeq(h[a], LAMBDA e :
                      /\ isSubpost(e.id)
                      /\ getParentId(e.id) = parentId
                      /\ NotDraft(e)))
             s == ArraySort(f.h, f.a, "dateThenOrder")
             subposts == s.h[s.a]
             currentIndex == FindIndexById(subposts, currentId)
         IN [h |-> s.h,
             v |-> IF currentIndex = 0
                   THEN [newer |-> Null, older |-> Null, parent |-> parent]
                   ELSE [newer |-> At(subposts, currentIndex + 1),
                         older |-> At(subposts, currentIndex - 1),
                         parent |-> parent]]
    ELSE LET f == ArrayFilter(h, SelectSeq(h[a], LAMBDA e : ~isSubpost(e.id)))
             parentPosts == f.h[f.a]
             currentIndex == FindIndexById(parentPosts, currentId)
         IN [h |-> f.h,
             v |-> IF currentIndex = 0
                   THEN [newer |-> Null, older |-> Null, parent |-> Null]
                   ELSE [newer |-> At(parentPosts, currentIndex - 1),
                         older |-> At(parentPosts, currentIndex + 1),
                         parent |-> Null]]

\* entry.data.tags || []
TagsOrEmpty(entry) == IF entry.tags.k = "array" THEN entry.tags.items ELSE <<>>

\* entryTags.filter((tag) => currentTags.includes(tag)).length
MatchingTags(entry, currentTags) ==
    Len(SelectSeq(TagsOrEmpty(entry),
                  LAMBDA tag : \E i \in DOMAIN currentTags : currentTags[i] = tag))

getRelatedEntries(h, a, currentEntry, limit) ==
    LET currentTags == TagsOrEmpty(currentEntry)
    IN IF Len(currentTags) = 0
       THEN LET none == Alloc(h, <<>>) IN [h |-> none.h, v |-> <<>>]
       ELSE LET others == ArrayFilter(h, SelectSeq(h[a], LAMBDA e :
                              e.id # currentEntry.id))
                mapped == Alloc(others.h,
                              [i \in DOMAIN others.h[others.a] |->
                                  [entry |-> others.h[others.a][i],
                                   score |-> MatchingTags(others.h[others.a][i],
                                                          currentTags)]])
                scored == ArrayFilter(mapped.h,
                              SelectSeq(mapped.h[mapped.a], LAMBDA x : x.score > 0))
                s == ArraySort(scored.h, scored.a, "scoreThenDate")
                top == ArraySlice(s.h, s.a, JsNum(0), JsNum(limit))
                es == Alloc(top.h, [i \in DOMAIN top.h[top.a] |->
                                       top.h[top.a][i].entry])
            IN [h |-> es.h, v |-> es.h[es.a]]

(***************************************************************************)
(* The collection as a state machine: a collection is loaded, and the      *)
(* query, series and navigation operations are called on it in any order,  *)
(* any number of times.                                                    *)
(***************************************************************************)
\* the collections: a series parent s with tags, its subposts s/1 (with an
\* order) and s/2 (without) of any date, and a standalone entry t
FrameItems ==
    {Entry(<<"s">>, 1, Undefined, "false", TagList(<<"a", "b">>), Str("tech")),
     Entry(<<"t">>, MaxDate, Undefined, "false", TagList(<<"b", "a">>), Str(""))}
    \cup {Entry(<<"s", "/", "1">>, d, Num(1), "false", TagList(<<"a">>),
                Str("travel")) : d \in 1..MaxDate}
    \cup {Entry(<<"s", "/", "2">>, d, Undefined, "undefined", TagsNull,
                NullValue) : d \in 1..MaxDate}

\* the currentId arguments: the ids of the collections and an id of none
CurrentIds == {e.id : e \in FrameItems} \cup {<<"u">>}

Init ==
    /\ entries \in UniqueLists(FrameItems, MaxFrameLen)
    /\ loaded = entries
    /\ prod = FALSE
    /\ call = NoCall
    /\ result = <<>>
    /\ service = NewThemeService
    /\ browser = BlankPage

\* sortEntriesByOrder(entries)
SortEntriesByOrder ==
    LET r == sortEntriesByOrder(HeapOf(entries), 1)
    IN /\ entries' = r.h[1]
       /\ call' = [op |-> "sortEntriesByOrder"]
       /\ result' = r.v
       /\ UNCHANGED <<loaded, prod, service, browser>>

\* getEntriesByYearSorted(entries)
GetEntriesByYearSorted ==
    LET r == getEntriesByYearSorted(HeapOf(entries), 1)
    IN /\ entries' = r.h[1]
       /\ call' = [op |-> "getEntriesByYearSorted"]
       /\ result' = r.v
       /\ UNCHANGED <<loaded, prod, service, browser>>

\* groupEntriesBy(entries, field)
GroupEntriesBy ==
    \E field \in {"category", "draft"} :
        LET r == groupEntriesBy(HeapOf(entries), 1, field)
        IN /\ entries' = r.h[1]
           /\ call' = [op |-> "groupEntriesBy", field |-> field]
           /\ result' = r.v
           /\ UNCHANGED <<loaded, prod, service, browser>>

\* getSeriesEntries(entries, parentId)
GetSeriesEntries ==
    \E parentId \in ParentArgs :
        LET r == getSeriesEntries(HeapOf(entries), 1, parentId)
        IN /\ entries' = r.h[1]
           /\ call' = [op |-> "getSeriesEntries", parentId |-> parentId]
           /\ result' = r.v
           /\ UNCHANGED <<loaded, prod, service, browser>>

\* getAdjacentEntriesWithSeries(entries, currentId)
GetAdjacentEntriesWithSeries ==
    \E currentId \in CurrentIds :
        LET r == getAdjacentEntriesWithSeries(HeapOf(entries), 1, currentId)
        IN /\ entries' = r.h[1]
           /\ call' = [op |-> "getAdjacentEntriesWithSeries",
                       currentId |-> currentId]
           /\ result' = r.v
           /\ UNCHANGED <<loaded, prod, service, browser>>

\* getRelatedEntries(entries, currentEntry, limit), currentEntry an entry
\* of the collection
GetRelatedEntries ==
    \E i \in DOMAIN entries, limit \in 1..MaxLimit :
        LET r == getRelatedEntries(HeapOf(entries), 1, entries[i], limit)
        IN /\ entries' = r.h[1]
           /\ call' = [op |-> "getRelatedEntries", current |-> entries[i],
                       limit |-> limit]
           /\ result' = r.v
           /\ UNCHANGED <<loaded, prod, service, browser>>

\* paginateEntries(entries, page, 2)
PaginateByTwo == \E page \in 1..MaxFrameLen : Paginate(page, 2)

Next ==
    \/ SortLoaded
    \/ SortEntriesByOrder
    \/ GetEntriesByYearSorted
    \/ GroupEntriesBy
    \/ GetSubpostsForParent
    \/ GetSeriesEntries
    \/ GetAdjacentEntriesWithSeries
    \/ GetRelatedEntries
    \/ PaginateByTwo

Spec == Init /\ [][Next]_vars

\* C6: whatever operations have been called on the collection, the caller's
\* list holds the entries it was loaded with, in the same order.
C6_InputUnchanged == entries = loaded

\* C6 witness: getSubpostsForParent has returned two subposts in the
\* reverse of their input order, and the input list is as it was loaded.
C6_Witness ==
    /\ call.op = "getSubpostsForParent"
    /\ Len(loaded) = 3
    /\ result = <<loaded[3], loaded[1]>>
    /\ entries = loaded

(***************************************************************************)
(* Navigation and series context.                                          *)
(***************************************************************************)
\* entries.findIndex + neighbours (the revision of entries.ts that has
\* getAdjacentEntries)
getAdjacentEntries(h, a, currentId) ==
    LET currentIndex == FindIndexById(h[a], currentId)
    IN [h |-> h,
        v |-> IF currentIndex = 0
              THEN [prev |-> Null, next |-> Null]
              ELSE [prev |-> At(h[a], currentIndex - 1),
                    next |-> At(h[a], currentIndex + 1)]]

getTopLevelEntries(h, a) ==
    LET f == ArrayFilter(h, SelectSeq(h[a], LAMBDA e : ~isSubpost(e.id)))
    IN [h |-> f.h, v |-> f.h[f.a]]

\* draft subposts count as subposts (mutant of hasSubposts)
hasSubpostsDrafts(h, a, entryId) ==
    [h |-> h,
     v |-> \E i \in DOMAIN h[a] :
               isSubpost(h[a][i].id) /\ getParentId(h[a][i].id) = entryId]

hasSubposts(h, a, entryId) ==
    LET subposts == getSubpostsForParent(h, a, entryId)
    IN [h |-> subposts.h, v |-> Len(subposts.v) > 0]

getParentEntry(h, a, subpostId) ==
    IF ~isSubpost(subpostId)
    THEN [h |-> h, v |-> Null]
    ELSE [h |-> h, v |-> FindById(h[a], getParentId(subpostId))]

\* isSubpost(currentEntry.id) ? getParentId(currentEntry.id) : currentEntry.id
SeriesIdOf(currentEntry) ==
    IF isSubpost(currentEntry.id)
    THEN getParentId(currentEntry.id)
    ELSE currentEntry.id

\* (the list getSeriesEntries returned is bound, as the one element of a
\* set, before it is searched)
getNextInSeries(h, a, currentEntry) ==
    CHOOSE r \in
        {LET currentIndex == FindIndexById(seriesEntries.v, currentEntry.id)
         IN [h |-> seriesEntries.h,
             v |-> IF currentIndex >= 1 /\ currentIndex < Len(seriesEntries.v)
                   THEN Some(seriesEntries.v[currentIndex + 1])
                   ELSE Null] :
            seriesEntries \in {getSeriesEntries(h, a, SeriesIdOf(currentEntry))}} :
        TRUE

getPrevInSeries(h, a, currentEntry) ==
    CHOOSE r \in
        {LET currentIndex == FindIndexById(seriesEntries.v, currentEntry.id)
         IN [h |-> seriesEntries.h,
             v |-> IF currentIndex > 1
                   THEN Some(seriesEntries.v[currentIndex - 1])
                   ELSE Null] :
            seriesEntries \in {getSeriesEntries(h, a, SeriesIdOf(currentEntry))}} :
        TRUE

\* getSeriesContext of getContent.ts; seriesId is a string or, in the
\* sentinel, the empty string.  Each call's result is bound (as the one
\* element of a set) before the next call is made on the heap it left.
getSeriesContext(h, a, currentPost) ==
    LET isCurrentSubpost == isSubpost(currentPost.id)
        seriesId == SeriesIdOf(currentPost)
        Sentinel(isCurrentParent) ==
            [h |-> isCurrentParent.h,
             v |-> [isCurrentSubpost |-> isCurrentSubpost,
                    isCurrentParent |-> isCurrentParent.v,
                    isInSeries |-> FALSE,
                    seriesId |-> <<>>,
                    parentPost |-> Null,
                    seriesPosts |-> <<>>,
                    prevInSeries |-> Null,
                    nextInSeries |-> Null]]
        InSeries(isCurrentParent) ==
            UNION {UNION {UNION {
                {[h |-> nextInSeries.h,
                  v |-> [isCurrentSubpost |-> isCurrentSubpost,
                         isCurrentParent |-> isCurrentParent.v,
                         isInSeries |-> TRUE,
                         seriesId |-> seriesId,
                         parentPost |-> parentPost.v,
                         seriesPosts |-> seriesPosts.v,
                         prevInSeries |-> prevInSeries.v,
                         nextInSeries |-> nextInSeries.v]] :
                    nextInSeries \in
                        {getNextInSeries(prevInSeries.h, a, currentPost)}} :
                    prevInSeries \in
                        {getPrevInSeries(seriesPosts.h, a, currentPost)}} :
                    seriesPosts \in
                        {getSeriesEntries(parentPost.h, a, seriesId)}} :
                    parentPost \in
                        {IF isCurrentSubpost
                         THEN getParentEntry(isCurrentParent.h, a, currentPost.id)
                         ELSE [h |-> isCurrentParent.h, v |-> Some(currentPost)]}}
        returned ==
            UNION {IF ~(isCurrentSubpost \/ isCurrentParent.v)
                   THEN {Sentinel(isCurrentParent)}
                   ELSE InSeries(isCurrentParent) :
                       isCurrentParent \in {hasSubposts(h, a, currentPost.id)}}
    IN CHOOSE r \in returned : TRUE

\* getSeriesContext of content.utils.ts: prevInSeries and nextInSeries are
\* computed from findIndex on seriesPosts (currentIndex is 0 here where
\* findIndex gives -1)
getSeriesContextOfContentUtils(h, a, currentPost) ==
    CHOOSE r \in
        UNION {
            IF ~(isSubpost(currentPost.id) \/ isCurrentParent.v)
            THEN {[h |-> isCurrentParent.h,
                   v |-> [isCurrentSubpost |-> isSubpost(currentPost.id),
                          isCurrentParent |-> isCurrentParent.v,
                          isInSeries |-> FALSE,
                          seriesId |-> <<>>,
                          parentPost |-> Null,
                          seriesPosts |-> <<>>,
                          prevInSeries |-> Null,
                          nextInSeries |-> Null]]}
            ELSE UNION {UNION {
                {[h |-> seriesPosts.h,
                  v |-> [isCurrentSubpost |-> isSubpost(currentPost.id),
                         isCurrentParent |-> isCurrentParent.v,
                         isInSeries |-> TRUE,
                         seriesId |-> SeriesIdOf(currentPost),
                         parentPost |-> parentPost.v,
                         seriesPosts |-> seriesPosts.v,
                         prevInSeries |->
                             IF currentIndex > 1
                             THEN Some(seriesPosts.v[currentIndex - 1])
                             ELSE Null,
                         nextInSeries |->
                             IF currentIndex < Len(seriesPosts.v)
                             THEN Some(seriesPosts.v[currentIndex + 1])
                             ELSE Null]] :
                    currentIndex \in
                        {FindIndexById(seriesPosts.v, currentPost.id)}} :
                    seriesPosts \in
                        {getSeriesEntries(parentPost.h, a,
                                          SeriesIdOf(currentPost))}} :
                    parentPost \in
                        {IF isSubpost(currentPost.id)
                         THEN getParentEntry(isCurrentParent.h, a, currentPost.id)
                         ELSE [h |-> isCurrentParent.h, v |-> Some(currentPost)]}} :
                isCurrentParent \in {hasSubposts(h, a, currentPost.id)}} :
        TRUE

\* the posts: top-level s, t and u; subposts s/1 (any date, with or without
\* an order), s/2 (draft or not) and s/3 of s; a subpost t/1 of t
NavItems ==
    {Entry(<<"s">>, 1, Undefined, "false", TagsUndefined, Str("tech")),
     Entry(<<"t">>, MaxDate, Undefined, "false", TagsUndefined, Str("tech")),
     Entry(<<"u">>, 1, Undefined, "true", TagsUndefined, Str("tech")),
     Entry(<<"s", "/", "3">>, MaxDate, Undefined, "undefined", TagsUndefined,
           Str("tech")),
     Entry(<<"t", "/", "1">>, 1, Undefined, "false", TagsUndefined, Str("tech"))}
    \cup {Entry(<<"s", "/", "1">>, d, o, "false", TagsUndefined, Str("tech")) :
            d \in 1..MaxDate, o \in {Undefined, Num(1)}}
    \cup {Entry(<<"s", "/", "2">>, 1, Undefined, dr, TagsUndefined, Str("tech")) :
            dr \in {"false", "true"}}

NavIds == {e.id : e \in NavItems}

InitNav ==
    /\ entries \in UniqueLists(NavItems, MaxNavLen)
    /\ loaded = entries
    /\ prod = FALSE
    /\ call = NoCall
    /\ result = <<>>
    /\ service = NewThemeService
    /\ browser = BlankPage

\* getAdjacentPosts(posts, currentId)
GetAdjacentPosts ==
    \E currentId \in NavIds :
        LET r == getAdjacentEntriesWithSeries(HeapOf(entries), 1, currentId)
        IN /\ entries' = r.h[1]
           /\ call' = [op |-> "getAdjacentEntriesWithSeries",
                       currentId |-> currentId]
           /\ result' = r.v
           /\ UNCHANGED <<loaded, prod, service, browser>>

\* getAdjacentEntries(entries, currentId)
GetAdjacentEntries ==
    \E currentId \in NavIds :
        LET r == getAdjacentEntries(HeapOf(entries), 1, currentId)
        IN /\ entries' = r.h[1]
           /\ call' = [op |-> "getAdjacentEntries", currentId |-> currentId]
           /\ result' = r.v
           /\ UNCHANGED <<loaded, prod, service, browser>>

\* getSeriesPosts(posts, parentId)
GetSeriesPosts ==
    \E parentId \in ParentArgs :
        LET r == getSeriesEntries(HeapOf(entries), 1, parentId)
        IN /\ entries' = r.h[1]
           /\ call' = [op |-> "getSeriesEntries", parentId |-> parentId]
           /\ result' = r.v
           /\ UNCHANGED <<loaded, prod, service, browser>>

\* getSeriesContext(allPosts, currentPost), currentPost any post, of the
\* list or not
GetSeriesContext ==
    \E currentPost \in NavItems :
        LET r == getSeriesContext(HeapOf(entries), 1, currentPost)
        IN /\ entries' = r.h[1]
           /\ call' = [op |-> "getSeriesContext", currentPost |-> currentPost]
           /\ result' = r.v
           /\ UNCHANGED <<loaded, prod, service, browser>>

\* getSeriesContext(allPosts, currentPost) of content.utils.ts
GetSeriesContextOfContentUtils ==
    \E currentPost \in NavItems :
        LET r == getSeriesContextOfContentUtils(HeapOf(entries), 1, currentPost)
        IN /\ entries' = r.h[1]
           /\ call' = [op |-> "getSeriesContextOfContentUtils",
                       currentPost |-> currentPost]
           /\ result' = r.v
           /\ UNCHANGED <<loaded, prod, service, browser>>

\* getTopLevelPosts(posts)
GetTopLevelPosts ==
    LET r == getTopLevelEntries(HeapOf(entries), 1)
    IN /\ entries' = r.h[1]
       /\ call' = [op |-> "getTopLevelEntries"]
       /\ result' = r.v
       /\ UNCHANGED <<loaded, prod, service, browser>>

\* one list of posts is loaded and one operation is called on it
NextNav ==
    \/ call = NoCall /\ GetAdjacentPosts
    \/ call = NoCall /\ GetAdjacentEntries
    \/ call = NoCall /\ GetSeriesPosts
    \/ call = NoCall /\ GetSeriesContext
    \/ call = NoCall /\ GetSeriesContextOfContentUtils
    \/ call = NoCall /\ GetTopLevelPosts

SpecNav == InitNav /\ [][NextNav]_vars

\* x and y are subposts of one parent: the same text before the first '/'
SameSeries(x, y) ==
    \E n \in 0..Len(x) :
        /\ IsTextBeforeFirstSlash(SubSeq(x, 1, n), x)
        /\ IsTextBeforeFirstSlash(SubSeq(x, 1, n), y)

\* the entry at index i of the loaded list comes before the one at index j
\* in the series order: earlier date, or the same date and a smaller order
\* (missing = 0), or both the same and earlier in the list
SeriesEarlier(i, j) ==
    \/ loaded[i].date < loaded[j].date
    \/ /\ loaded[i].date = loaded[j].date
       /\ OrZero(loaded[i].order) < OrZero(loaded[j].order)
    \/ /\ loaded[i].date = loaded[j].date
       /\ OrZero(loaded[i].order) = OrZero(loaded[j].order)
       /\ i < j

\* the entry of the loaded list that is first (last) in the series order
\* among those at the indices I, or null when I is empty
SeriesFirst(I) ==
    IF I = {} THEN Null
    ELSE Some(loaded[CHOOSE i \in I : \A k \in I \ {i} : SeriesEarlier(i, k)])

SeriesLast(I) ==
    IF I = {} THEN Null
    ELSE Some(loaded[CHOOSE i \in I : \A k \in I \ {i} : SeriesEarlier(k, i)])

\* the entry of the loaded list at the least (greatest) index of I, or null
\* when I is empty
ListFirst(I) ==
    IF I = {} THEN Null
    ELSE Some(loaded[CHOOSE i \in I : \A k \in I : i <= k])

ListLast(I) ==
    IF I = {} THEN Null
    ELSE Some(loaded[CHOOSE i \in I : \A k \in I : k <= i])

\* C11: for a currentId that is a non-draft subpost of the list,
\* getAdjacentEntriesWithSeries returns as newer the next and as older the
\* previous of the non-draft subposts of the same parent in ascending
\* date-then-order, null at the ends, and as parent the entry whose id is
\* the parent id.
C11_SeriesNeighbours ==
    (/\ call.op = "getAdjacentEntriesWithSeries"
     /\ HasSlash(call.currentId)
     /\ \E i \in DOMAIN loaded :
            loaded[i].id = call.currentId /\ loaded[i].draft # "true") =>
        LET c == CHOOSE i \in DOMAIN loaded : loaded[i].id = call.currentId
            siblings == {i \in DOMAIN loaded :
                            /\ loaded[i].draft # "true"
                            /\ SameSeries(call.currentId, loaded[i].id)}
            parents == {i \in DOMAIN loaded :
                           IsTextBeforeFirstSlash(loaded[i].id, call.currentId)}
        IN /\ result.newer =
                  SeriesFirst({j \in siblings : SeriesEarlier(c, j)})
           /\ result.older =
                  SeriesLast({j \in siblings : SeriesEarlier(j, c)})
           /\ result.parent = ListFirst(parents)

\* C11 witness: s/1 has an older and a newer neighbour in its series, the
\* older one of the same date and standing behind it in the list (the order
\* field decides), and no parent entry.
C11_Witness ==
    /\ call.op = "getAdjacentEntriesWithSeries"
    /\ call.currentId = <<"s", "/", "1">>
    /\ Len(loaded) = 3
    /\ loaded[1].id = call.currentId
    /\ result.older = Some(loaded[2])
    /\ loaded[2].date = loaded[1].date
    /\ result.newer = Some(loaded[3])
    /\ result.parent = Null

\* C12: for a currentId that is a top-level entry of the list,
\* getAdjacentEntriesWithSeries returns as newer the top-level entry before
\* it and as older the top-level entry after it in the list, skipping the
\* subposts, null at the ends, and parent null.
C12_TopLevelNeighbours ==
    (/\ call.op = "getAdjacentEntriesWithSeries"
     /\ ~HasSlash(call.currentId)
     /\ \E i \in DOMAIN loaded : loaded[i].id = call.currentId) =>
        LET c == CHOOSE i \in DOMAIN loaded : loaded[i].id = call.currentId
            top == {i \in DOMAIN loaded : ~HasSlash(loaded[i].id)}
        IN /\ result.newer = ListLast({j \in top : j < c})
           /\ result.older = ListFirst({j \in top : j > c})
           /\ result.parent = Null

\* C12 witness: the top-level entry before t is s, with a subpost standing
\* between them in the list.
C12_Witness ==
    /\ call.op = "getAdjacentEntriesWithSeries"
    /\ call.currentId = <<"t">>
    /\ Len(loaded) = 3
    /\ loaded[1].id = <<"s">>
    /\ HasSlash(loaded[2].id)
    /\ loaded[3].id = <<"t">>
    /\ result = [newer |-> Some(loaded[1]), older |-> Null, parent |-> Null]

\* C13: for a currentId that is the id of no entry of the list,
\* getAdjacentEntriesWithSeries returns newer = older = null and
\* getAdjacentEntries returns prev = next = null (a result is returned;
\* nothing is thrown).
C13_NotFoundIsNull ==
    (/\ call.op \in {"getAdjacentEntriesWithSeries", "getAdjacentEntries"}
     /\ \A i \in DOMAIN loaded : loaded[i].id # call.currentId) =>
        /\ call.op = "getAdjacentEntriesWithSeries" =>
              result.newer = Null /\ result.older = Null
        /\ call.op = "getAdjacentEntries" =>
              result.prev = Null /\ result.next = Null

\* C13 witness: s/1 is asked for in a list that holds its parent and two
\* other subposts of its series but not s/1.
C13_Witness ==
    /\ call.op = "getAdjacentEntriesWithSeries"
    /\ call.currentId = <<"s", "/", "1">>
    /\ {loaded[i].id : i \in DOMAIN loaded}
           = {<<"s">>, <<"s", "/", "2">>, <<"s", "/", "3">>}
    /\ \A i \in DOMAIN loaded : loaded[i].draft # "true"
    /\ result.parent # Null
    /\ result.newer = Null
    /\ result.older = Null

\* C15: getSeriesEntries(entries, parentId) is the entry whose id is
\* parentId, when there is one, followed by
\* getSubpostsForParent(entries, parentId); without such an entry it is
\* getSubpostsForParent(entries, parentId).
C15_ParentThenSubposts ==
    call.op = "getSeriesEntries" =>
        LET parents == {i \in DOMAIN loaded : loaded[i].id = call.parentId}
            subposts == getSubpostsForParent(HeapOf(loaded), 1, call.parentId).v
        IN result = ListFirst(parents) \o subposts

\* C15 witness: the series of s, whose parent entry stands last in the
\* list, behind two of its subposts.
C15_Witness ==
    /\ call.op = "getSeriesEntries"
    /\ call.parentId = <<"s">>
    /\ Len(loaded) = 3
    /\ loaded[3].id = <<"s">>
    /\ Len(result) = 3
    /\ result[1] = loaded[3]

\* the 'not in series' sentinel
IsNotInSeries(context) ==
    /\ context.isInSeries = FALSE
    /\ context.seriesId = <<>>
    /\ context.seriesPosts = <<>>
    /\ context.parentPost = Null
    /\ context.prevInSeries = Null
    /\ context.nextInSeries = Null

\* C16: getSeriesContext returns the 'not in series' sentinel exactly when
\* the current post is not a subpost and the list holds no non-draft
\* subpost of it (a result is returned; nothing is thrown).
C16_NotInSeriesSentinel ==
    call.op = "getSeriesContext" =>
        (IsNotInSeries(result) <=>
            /\ ~HasSlash(call.currentPost.id)
            /\ \A i \in DOMAIN loaded :
                   StartsWithParent(loaded[i].id, call.currentPost.id)
                       => loaded[i].draft = "true")

\* C16 witness: the context of s in a list that holds s and a draft subpost
\* of s is the sentinel.
C16_Witness ==
    /\ call.op = "getSeriesContext"
    /\ call.currentPost.id = <<"s">>
    /\ \E i \in DOMAIN loaded : loaded[i] = call.currentPost
    /\ \E i \in DOMAIN loaded :
           loaded[i].id = <<"s", "/", "2">> /\ loaded[i].draft = "true"
    /\ IsNotInSeries(result)

\* C25 as claimed: in both getSeriesContext, prevInSeries and nextInSeries
\* are the entries immediately before and after the current entry in
\* seriesPosts (null at the ends), both null when the current entry does
\* not appear in seriesPosts; the two implementations return the same
\* prevInSeries and nextInSeries.
C25_PrevNextInSeries ==
    call.op \in {"getSeriesContext", "getSeriesContextOfContentUtils"} =>
        /\ result.isInSeries =>
              IF \E i \in DOMAIN result.seriesPosts :
                     result.seriesPosts[i].id = call.currentPost.id
              THEN \E i \in DOMAIN result.seriesPosts :
                       /\ result.seriesPosts[i].id = call.currentPost.id
                       /\ result.prevInSeries = At(result.seriesPosts, i - 1)
                       /\ result.nextInSeries = At(result.seriesPosts, i + 1)
              ELSE result.prevInSeries = Null /\ result.nextInSeries = Null
        /\ result.prevInSeries
               = getSeriesContext(HeapOf(loaded), 1, call.currentPost).v.prevInSeries
        /\ result.nextInSeries
               = getSeriesContext(HeapOf(loaded), 1, call.currentPost).v.nextInSeries

\* C26: for any two entries x and y of a collection with unique ids,
\* getAdjacentEntriesWithSeries(entries, x.id).newer is y if and only if
\* getAdjacentEntriesWithSeries(entries, y.id).older is x (the second call
\* is made on the array as the first call left it).
C26_AdjacencyMutual ==
    call.op = "getAdjacentEntriesWithSeries" =>
        \A x, y \in DOMAIN entries :
            entries[x].id = call.currentId =>
                (result.newer = Some(entries[y])
                    <=> getAdjacentEntriesWithSeries(
                            HeapOf(entries), 1, entries[y].id).v.older
                        = Some(entries[x]))

\* C26 witness: s/1 and s/2 have the same date and order and s/2 stands
\* first in the list; the newer of s/2 is s/1.
C26_Witness ==
    /\ call.op = "getAdjacentEntriesWithSeries"
    /\ call.currentId = <<"s", "/", "2">>
    /\ Len(entries) = 3
    /\ entries[1].id = <<"s", "/", "2">>
    /\ entries[2].id = <<"s", "/", "1">>
    /\ entries[1].date = entries[2].date
    /\ OrZero(entries[1].order) = OrZero(entries[2].order)
    /\ result.newer = Some(entries[2])
    /\ result.older = Null

\* C27 as claimed: getAdjacentEntriesWithSeries never returns a draft entry
\* as newer or older, whatever the current id is.
C27_NoDraftNeighbour ==
    call.op = "getAdjacentEntriesWithSeries" =>
        /\ result.newer # Null => NotDraft(result.newer[1])
        /\ result.older # Null => NotDraft(result.older[1])

\* C17: getTopLevelEntries returns, in input order, exactly the entries
\* whose id is not a subpost id; every entry of the list is either returned
\* or a subpost, never both.
C17_TopLevelEntries ==
    call.op = "getTopLevelEntries" =>
        /\ result = SelectSeq(loaded, LAMBDA e : ~HasSlash(e.id))
        /\ \A i \in DOMAIN loaded :
               (\E j \in DOMAIN result : result[j] = loaded[i])
                   <=> ~isSubpost(loaded[i].id)

\* C17 witness: of three entries the second is a subpost and the other two
\* are returned.
C17_Witness ==
    /\ call.op = "getTopLevelEntries"
    /\ Len(loaded) = 3
    /\ HasSlash(loaded[2].id)
    /\ result = <<loaded[1], loaded[3]>>

(***************************************************************************)
(* Related posts: getRelatedEntries on posts with every kind of tags.      *)
(***************************************************************************)
\* the posts: x with two tags, an empty list, null or no tags; y with one
\* tag; z with three tags or one; w with a tag that differs from a in case
\* only, or with one tag written twice
RelatedItems ==
    {Entry(<<"x">>, 1, Undefined, "false", tags, Str("tech")) :
        tags \in {TagList(<<"a", "b">>), TagList(<<>>), TagsNull, TagsUndefined}}
    \cup {Entry(<<"y">>, d, Undefined, "false", TagList(<<"a">>), Str("tech")) :
            d \in 1..MaxDate}
    \cup {Entry(<<"z">>, d, Undefined, "false", tags, Str("tech")) :
            d \in 1..MaxDate,
            tags \in {TagList(<<"a", "b", "c">>), TagList(<<"c">>)}}
    \cup {Entry(<<"w">>, MaxDate, Undefined, "false", tags, Str("tech")) :
            tags \in {TagList(<<"A">>), TagList(<<"b", "b">>)}}

InitRelated ==
    /\ entries \in UniqueLists(RelatedItems, MaxRelatedLen)
    /\ loaded = entries
    /\ prod = FALSE
    /\ call = NoCall
    /\ result = <<>>
    /\ service = NewThemeService
    /\ browser = BlankPage

\* getRelatedPosts(posts, currentPost, limit), currentPost any post, of the
\* list or not
GetRelatedPosts ==
    \E currentPost \in RelatedItems, limit \in 0..MaxLimit :
        LET r == getRelatedEntries(HeapOf(entries), 1, currentPost, limit)
        IN /\ entries' = r.h[1]
           /\ call' = [op |-> "getRelatedEntries", current |-> currentPost,
                       limit |-> limit]
           /\ result' = r.v
           /\ UNCHANGED <<loaded, prod, service, browser>>

\* one list of posts is loaded and one call is made on it
NextRelated == call = NoCall /\ GetRelatedPosts

SpecRelated == InitRelated /\ [][NextRelated]_vars

\* the tags of an entry as a list, none for null or missing tags
TagsOf(e) == IF e.tags.k = "array" THEN e.tags.items ELSE <<>>

\* the number of tags in the list of the entry at index i of the loaded list
\* that are (the same string as) a tag of current
SharedTags(i, current) ==
    Cardinality({k \in DOMAIN TagsOf(loaded[i]) :
                    \E m \in DOMAIN TagsOf(current) :
                        TagsOf(current)[m] = TagsOf(loaded[i])[k]})

\* the entry at index i ranks before the one at index j: more shared tags,
\* or as many and a later date, or both the same and earlier in the list
RanksBefore(i, j, current) ==
    \/ SharedTags(i, current) > SharedTags(j, current)
    \/ /\ SharedTags(i, current) = SharedTags(j, current)
       /\ loaded[i].date > loaded[j].date
    \/ /\ SharedTags(i, current) = SharedTags(j, current)
       /\ loaded[i].date = loaded[j].date
       /\ i < j

\* C14: getRelatedEntries returns the first limit entries of the ranking of
\* the entries other than current that share a tag with it, by descending
\* number of shared tags and then descending date; never current, and
\* nothing when current has no tags.
C14_RelatedRanking ==
    call.op = "getRelatedEntries" =>
        LET related == {i \in DOMAIN loaded :
                           /\ loaded[i].id # call.current.id
                           /\ SharedTags(i, call.current) > 0}
            Rank(i) == Cardinality({j \in related :
                                       RanksBefore(j, i, call.current)}) + 1
        IN /\ Len(result) = Min(call.limit, Cardinality(related))
           /\ \A i \in related :
                  Rank(i) <= call.limit => result[Rank(i)] = loaded[i]
           /\ \A k \in DOMAIN result : result[k].id # call.current.id
           /\ TagsOf(call.current) = <<>> => result = <<>>

\* C14 witness: for x{a,b}, y{a} and z{a,b,c} in this order and limit 2, the
\* entries related to x are [z, y].
C14_Witness ==
    /\ call.op = "getRelatedEntries"
    /\ call.limit = 2
    /\ Len(loaded) = 3
    /\ loaded[1] = call.current
    /\ call.current.tags = TagList(<<"a", "b">>)
    /\ loaded[2].tags = TagList(<<"a">>)
    /\ loaded[3].tags = TagList(<<"a", "b", "c">>)
    /\ result = <<loaded[3], loaded[2]>>

(***************************************************************************)
(* Tags: getUniqueTags.  A tag is a string, a sequence of characters.      *)
(***************************************************************************)
\* [...new Set(tags)] without the sort (mutant of getUniqueTags)
getUniqueTagsUnsorted(h, a) ==
    LET tags == Alloc(h, Concat([i \in DOMAIN h[a] |-> TagsOrEmpty(h[a][i])]))
        kept == ArrayFilter(tags.h, tags.h[tags.a])
        unique == Alloc(kept.h, FirstOccurrences(kept.h[kept.a]))
    IN [h |-> unique.h, v |-> unique.h[unique.a]]

\* flatMap of data.tags || [], the filter of the tags that are not null or
\* undefined (every tag is a string), the Set in insertion order, and the
\* sort of its spread
getUniqueTags(h, a) ==
    LET tags == Alloc(h, Concat([i \in DOMAIN h[a] |-> TagsOrEmpty(h[a][i])]))
        kept == ArrayFilter(tags.h, tags.h[tags.a])
        unique == Alloc(kept.h, FirstOccurrences(kept.h[kept.a]))
        s == ArraySort(unique.h, unique.a, "default")
    IN [h |-> s.h, v |-> s.h[s.a]]

\* the values of data.tags: null, missing, no tags, and lists with a
\* repeated tag, a two-character tag, an upper-case tag and the empty tag
TagChoices ==
    {TagsNull, TagsUndefined, TagList(<<>>),
     TagList(<<<<"b">>, <<"a">>>>),
     TagList(<<<<"a">>, <<"c">>>>),
     TagList(<<<<"a", "b">>, <<"B">>, <<"a">>, <<"a">>>>),
     TagList(<<<<>>, <<"a", "b">>>>)}

TagItems ==
    {Entry(<<c>>, 1, Undefined, "false", tags, Str("tech")) :
        c \in {"a", "b", "c", "A"}, tags \in TagChoices}

InitTags ==
    /\ entries \in UniqueLists(TagItems, MaxTagsLen)
    /\ loaded = entries
    /\ prod = FALSE
    /\ call = NoCall
    /\ result = <<>>
    /\ service = NewThemeService
    /\ browser = BlankPage

\* getUniquePostTags(posts)
GetUniquePostTags ==
    LET r == getUniqueTags(HeapOf(entries), 1)
    IN /\ entries' = r.h[1]
       /\ call' = [op |-> "getUniqueTags"]
       /\ result' = r.v
       /\ UNCHANGED <<loaded, prod, service, browser>>

\* one list of posts is loaded and one call is made on it
NextTags == call = NoCall /\ GetUniquePostTags

SpecTags == InitTags /\ [][NextTags]_vars

\* x comes before y in lexicographic order: they agree up to a position
\* where x has ended and y has not, or where x has the smaller character
LexBefore(x, y) ==
    \E k \in 1..Len(y) :
        /\ k <= Len(x) + 1
        /\ SubSeq(x, 1, k - 1) = SubSeq(y, 1, k - 1)
        /\ \/ k = Len(x) + 1
           \/ k <= Len(x) /\ CodeUnit(x[k]) < CodeUnit(y[k])

\* C18: getUniqueTags returns the tags that occur in some entry's tags
\* (null or missing tags being no tags), each once, in ascending
\* lexicographic order.
C18_UniqueSortedTags ==
    call.op = "getUniqueTags" =>
        /\ Range(result) =
               UNION {Range(TagsOf(loaded[i])) : i \in DOMAIN loaded}
        /\ \A i, j \in DOMAIN result : i < j => LexBefore(result[i], result[j])

\* C18 witness: tags [b, a] and [a, c], and an entry with null tags, give
\* [a, b, c].
C18_Witness ==
    /\ call.op = "getUniqueTags"
    /\ Len(loaded) = 3
    /\ loaded[1].tags = TagList(<<<<"b">>, <<"a">>>>)
    /\ loaded[2].tags = TagsNull
    /\ loaded[3].tags = TagList(<<<<"a">>, <<"c">>>>)
    /\ result = <<<<"a">>, <<"b">>, <<"c">>>>

(***************************************************************************)
(* The archive by year: getEntriesByYearSorted on dates of three years.    *)
(***************************************************************************)
\* three ids, every date of the first year's end and the two years after it
YearItems ==
    {Entry(<<c>>, d, Undefined, "false", TagsUndefined, Str("tech")) :
        c \in {"a", "b", "c"}, d \in 1..(2 * YearLength)}

InitYear ==
    /\ entries \in UniqueLists(YearItems, MaxSortLen)
    /\ loaded = entries
    /\ prod = FALSE
    /\ call = NoCall
    /\ result = <<>>
    /\ service = NewThemeService
    /\ browser = BlankPage

\* one list is loaded and getEntriesByYearSorted is called on it
NextYear == call = NoCall /\ GetEntriesByYearSorted

SpecYear == InitYear /\ [][NextYear]_vars

\* C19: getEntriesByYearSorted puts every entry in exactly one group, the
\* group keyed by the year of its date; each group is in descending date
\* order and the groups are in descending numeric year order.
C19_GroupsByYear ==
    call.op = "getEntriesByYearSorted" =>
        /\ \A i \in DOMAIN loaded :
               Cardinality({g \in DOMAIN result :
                               \E k \in DOMAIN result[g][2] :
                                   result[g][2][k] = loaded[i]}) = 1
        /\ \A g \in DOMAIN result :
               /\ Len(result[g][2]) =
                      Cardinality({i \in DOMAIN loaded :
                          \E k \in DOMAIN result[g][2] :
                              result[g][2][k] = loaded[i]})
               /\ \A k \in DOMAIN result[g][2] :
                      result[g][1] = NumberToString(YearOf(result[g][2][k].date))
               /\ \A k, m \in DOMAIN result[g][2] :
                      k < m => result[g][2][k].date >= result[g][2][m].date
        /\ \A g, f \in DOMAIN result :
               g < f => ParseInt(result[g][1]) > ParseInt(result[f][1])

\* C19 witness: the year 10 with its two entries, the later one first, comes
\* before the year 9.
C19_Witness ==
    /\ call.op = "getEntriesByYearSorted"
    /\ Len(loaded) = 3
    /\ loaded[2].date < loaded[3].date
    /\ result = <<<<<<"1", "0">>, <<loaded[3], loaded[2]>>>>,
                  <<<<"9">>, <<loaded[1]>>>>>>

\* String(data[field]), or "Uncategorized" for a null or undefined value
StringOrUncategorized(value) ==
    IF value.t \in {"null", "undefined"} THEN "Uncategorized" ELSE value.s

\* C20 as claimed: groupEntriesBy puts each entry under String(data[field]),
\* under "Uncategorized" only for a null or undefined value (the empty
\* string keeps its own key); the keys are in order of first occurrence and
\* each group keeps the input order.
C20_GroupKeys ==
    call.op = "groupEntriesBy" =>
        LET KeyAt(i) == StringOrUncategorized(FieldValue(loaded[i], call.field))
            First(key) == CHOOSE i \in DOMAIN loaded :
                              /\ KeyAt(i) = key
                              /\ \A j \in 1..(i - 1) : KeyAt(j) # key
        IN /\ {result[g][1] : g \in DOMAIN result}
                  = {KeyAt(i) : i \in DOMAIN loaded}
           /\ \A g, f \in DOMAIN result :
                  g < f => First(result[g][1]) < First(result[f][1])
           /\ \A g \in DOMAIN result :
                  result[g][2] =
                      SelectSeq(loaded, LAMBDA e :
                          StringOrUncategorized(FieldValue(e, call.field))
                              = result[g][1])

(***************************************************************************)
(* Reading time (content.utils.ts, commonFunctions.ts).  A text is a       *)
(* sequence of characters over the letter a, the space, the line feed and  *)
(* the markdown characters # and *.  The replacements of frontmatter,      *)
(* images, links and code spans match only where the text has a '-', '['   *)
(* or '`', which no text of the model has; the replacements of headers,    *)
(* emphasis and line breaks, trim and split are computed.                  *)
(***************************************************************************)
WORDS_PER_MINUTE == 225

\* a number handed over where a string is expected
NumberValue(n) == [t |-> "number", s |-> NumberToString(n)]

\* \s
IsSpace(c) == c \in {" ", "\n"}

Positions(s) == [i \in 1..Len(s) |-> i]

\* the characters of s at the positions p, in the order of p
Pick(s, p) == [i \in 1..Len(p) |-> s[p[i]]]

\* position i of s is inside a match of /#{1,6}\s+/g: a '#' among the last
\* six of a run of '#' that whitespace follows, or whitespace of the run
\* that follows a '#' (hashes: the positions of '#' in s)
InHeaderMark(s, hashes, i) ==
    \/ /\ i \in hashes
       /\ \E j \in i..Min(i + 5, Len(s) - 1) :
              /\ \A m \in i..j : m \in hashes
              /\ IsSpace(s[j + 1])
    \/ /\ IsSpace(s[i])
       /\ \E k \in hashes :
              /\ k < i
              /\ \A m \in (k + 1)..i : IsSpace(s[m])

WithoutHeaderMarks(s, hashes) ==
    Pick(s, SelectSeq(Positions(s), LAMBDA i : ~InHeaderMark(s, hashes, i)))

\* .replace(/#{1,6}\s+/g, '')
StripHeaders(s) == WithoutHeaderMarks(s, {k \in DOMAIN s : s[k] = "#"})

\* .replace(/[*_~`]/g, ''), on texts without a backquote
StripEmphasis(s) == SelectSeq(s, LAMBDA c : c \notin {"*", "_", "~"})

\* the first line feed of every run of line feeds, and the other characters
FirstOfLineFeeds(s) ==
    Pick(s, SelectSeq(Positions(s),
                      LAMBDA i : ~(s[i] = "\n" /\ i > 1 /\ s[i - 1] = "\n")))

\* .replace(/\n+/g, ' '): every run of line feeds becomes one space
JoinLines(s) ==
    [i \in DOMAIN FirstOfLineFeeds(s) |->
        IF FirstOfLineFeeds(s)[i] = "\n" THEN " " ELSE FirstOfLineFeeds(s)[i]]

\* .trim()
Trim(s) ==
    IF \A i \in DOMAIN s : IsSpace(s[i]) THEN <<>>
    ELSE SubSeq(s,
                CHOOSE i \in DOMAIN s :
                    ~IsSpace(s[i]) /\ \A j \in 1..(i - 1) : IsSpace(s[j]),
                CHOOSE i \in DOMAIN s :
                    ~IsSpace(s[i]) /\ \A j \in (i + 1)..Len(s) : IsSpace(s[j]))

\* where the piece that starts at position p of s ends: before the next
\* whitespace, or at the end of s
PieceEnd(s, p) ==
    (CHOOSE q \in p..(Len(s) + 1) :
        /\ q = Len(s) + 1 \/ IsSpace(s[q])
        /\ \A m \in p..(q - 1) : ~IsSpace(s[m])) - 1

\* where the pieces of s.split(/\s+/) start: at 1 and after every run of
\* whitespace
PieceStarts(s) ==
    SelectSeq(Positions(s) \o <<Len(s) + 1>>,
              LAMBDA p : \/ p = 1
                         \/ /\ IsSpace(s[p - 1])
                            /\ p = Len(s) + 1 \/ ~IsSpace(s[p]))

PiecesFrom(s, starts) ==
    [k \in DOMAIN starts |-> SubSeq(s, starts[k], PieceEnd(s, starts[k]))]

\* s.split(/\s+/)
SplitSpaces(s) == PiecesFrom(s, PieceStarts(s))

\* Math.floor(n / d) + 1 (mutant of CeilQuotient)
FloorQuotientPlusOne(n, d) == (n \div d) + 1

\* Math.ceil(n / d) for n >= 0 and d > 0
CeilQuotient(n, d) == (n + d - 1) \div d

\* { text: '1 min read', minutes: 1, time: 60000, words: 0 }
DefaultReadingTime ==
    [text |-> <<"1", " ", "m", "i", "n", " ", "r", "e", "a", "d">>,
     minutes |-> 1, time |-> 60000, words |-> 0]

\* the object returned for a number of minutes and a number of words
ReadingTimeOf(minutes, wordCount) ==
    [text |-> NumberToString(minutes)
                  \o <<" ", "m", "i", "n", " ", "r", "e", "a", "d">>,
     minutes |-> minutes,
     time |-> minutes * 60 * 1000,
     words |-> wordCount]

\* the text left after the replacements and trim
PlainText(s) == Trim(JoinLines(StripEmphasis(StripHeaders(s))))

\* plainText.split(/\s+/).filter((word) => word.length > 0).length
WordCountOf(plainText) ==
    Len(SelectSeq(SplitSpaces(plainText), LAMBDA word : Len(word) > 0))

MinutesAndWords(wordCount) ==
    ReadingTimeOf(Max(1, CeilQuotient(wordCount, WORDS_PER_MINUTE)), wordCount)

calculateReadingTime(content) ==
    IF content.t # "string" \/ content.s = <<>>
    THEN DefaultReadingTime
    ELSE MinutesAndWords(WordCountOf(PlainText(content.s)))

\* typeof v === 'number'
IsNumber(v) == "def" \in DOMAIN v /\ v.def

\* v && typeof v === 'string'
IsNonEmptyString(v) == v.t = "string" /\ v.s # <<>>

\* a ReadingTime as a value of type any: text a string, the rest numbers
ObjectOf(rt) ==
    [t |-> "object", text |-> Str(rt.text), minutes |-> Num(rt.minutes),
     time |-> Num(rt.time), words |-> Num(rt.words)]

\* remarkData?.readingTime, remarkData being undefined or an object
ReadingTimeField(remarkData) ==
    IF remarkData = Null THEN UndefinedValue ELSE remarkData[1].readingTime

Read0 == <<"r", "e", "a", "d", "0">>

\* the condition getReadingTime of content.utils.ts puts on the estimate
IsUsableEstimate(readingTime) ==
    /\ readingTime.t = "object"
    /\ IsNonEmptyString(readingTime.text)
    /\ readingTime.text.s # Read0
    /\ IsNumber(readingTime.minutes)

\* the condition getReadingTime of commonFunctions.ts puts on the estimate
IsCompleteEstimate(readingTime) ==
    /\ IsUsableEstimate(readingTime)
    /\ IsNumber(readingTime.time)
    /\ IsNumber(readingTime.words)

\* the two fallbacks of getReadingTime
ReadingTimeFallback(content) ==
    IF content # UndefinedValue
    THEN ObjectOf(calculateReadingTime(content))
    ELSE ObjectOf(DefaultReadingTime)

\* getReadingTime of content.utils.ts
getReadingTime(remarkData, content) ==
    IF IsUsableEstimate(ReadingTimeField(remarkData))
    THEN ReadingTimeField(remarkData)
    ELSE ReadingTimeFallback(content)

\* getReadingTime of commonFunctions.ts
getReadingTimeOfCommonFunctions(remarkData, content) ==
    IF IsCompleteEstimate(ReadingTimeField(remarkData))
    THEN [t |-> "object",
          text |-> ReadingTimeField(remarkData).text,
          minutes |-> ReadingTimeField(remarkData).minutes,
          time |-> ReadingTimeField(remarkData).time,
          words |-> ReadingTimeField(remarkData).words]
    ELSE ReadingTimeFallback(content)

(***************************************************************************)
(* Reading time as a state machine: calculateReadingTime and the two       *)
(* getReadingTime are called with any content and any estimate.            *)
(***************************************************************************)

\* n words, each followed by the separator sep
WordsText(n, sep) ==
    [i \in 1..(n * (1 + Len(sep))) |->
        IF (i - 1) % (1 + Len(sep)) = 0 THEN "a"
        ELSE sep[(i - 1) % (1 + Len(sep))]]

\* the word counts around the changes of the number of minutes
LongCounts ==
    {WORDS_PER_MINUTE - 1, WORDS_PER_MINUTE, WORDS_PER_MINUTE + 1,
     2 * WORDS_PER_MINUTE, MaxWords}

Texts ==
    SeqsUpTo({"a", " ", "\n", "#", "*"}, MaxTextLen)
        \cup {WordsText(n, sep) :
                 n \in LongCounts, sep \in {<<" ">>, <<"\n", "\n">>}}

Contents ==
    {Str(text) : text \in Texts}
        \cup {UndefinedValue, NullValue, NumberValue(0), NumberValue(5)}

ThreeMinRead == <<"3", " ", "m", "i", "n", " ", "r", "e", "a", "d">>

\* the estimates of the remark plugin: every field present or not, of the
\* right type or not
Estimates ==
    [t : {"object"},
     text : {UndefinedValue, Str(<<>>), Str(Read0), Str(ThreeMinRead),
             NumberValue(3)},
     minutes : {Undefined, Num(3), Str(<<"3">>)},
     time : {Undefined, Num(180000)},
     words : {Undefined, Num(600), Str(<<"6", "0", "0">>)}]

RemarkData ==
    {Null} \cup {Some([readingTime |-> r]) :
                    r \in Estimates \cup {UndefinedValue, Str(<<"x">>)}}

OptionalContents ==
    {UndefinedValue, NullValue, Str(<<>>), Str(<<"a", " ", "a">>)}

InitRead ==
    /\ entries = <<>>
    /\ loaded = <<>>
    /\ prod = FALSE
    /\ call = NoCall
    /\ result = <<>>
    /\ service = NewThemeService
    /\ browser = BlankPage

CalculateReadingTime ==
    \E content \in Contents :
        /\ call' = [op |-> "calculateReadingTime", content |-> content]
        /\ result' = calculateReadingTime(content)
        /\ UNCHANGED <<entries, loaded, prod, service, browser>>

GetReadingTime ==
    \E remarkData \in RemarkData, content \in OptionalContents :
        /\ call' = [op |-> "getReadingTime", of |-> "content.utils",
                    remarkData |-> remarkData, content |-> content]
        /\ result' = getReadingTime(remarkData, content)
        /\ UNCHANGED <<entries, loaded, prod, service, browser>>

GetReadingTimeOfCommonFunctions ==
    \E remarkData \in RemarkData, content \in OptionalContents :
        /\ call' = [op |-> "getReadingTime", of |-> "commonFunctions",
                    remarkData |-> remarkData, content |-> content]
        /\ result' = getReadingTimeOfCommonFunctions(remarkData, content)
        /\ UNCHANGED <<entries, loaded, prod, service, browser>>

\* one call is made
NextRead ==
    \/ call = NoCall /\ CalculateReadingTime
    \/ call = NoCall /\ GetReadingTime
    \/ call = NoCall /\ GetReadingTimeOfCommonFunctions

SpecRead == InitRead /\ [][NextRead]_vars

\* a text of plain words: letters and whitespace alone
IsPlainWords(text) == \A i \in DOMAIN text : text[i] \in {"a", " ", "\n"}

\* the number of whitespace-separated words of a text
NumberOfWords(text) ==
    Cardinality({i \in DOMAIN text :
                    ~IsSpace(text[i]) /\ (i = 1 \/ IsSpace(text[i - 1]))})

\* C21: for a text of w whitespace-separated plain words,
\* calculateReadingTime returns words = w, minutes = max(1, ceil(w / 225)),
\* time = minutes * 60000 and text = "<minutes> min read"; empty or
\* non-string input returns minutes 1, time 60000, words 0; 450 words give
\* 2 minutes and 225 words give 1.
C21_ReadingTime ==
    call.op = "calculateReadingTime" =>
        IF call.content.t # "string" \/ call.content.s = <<>>
        THEN result.minutes = 1 /\ result.time = 60000 /\ result.words = 0
        ELSE IsPlainWords(call.content.s) =>
            /\ result.words = NumberOfWords(call.content.s)
            /\ result.minutes >= 1
            /\ result.minutes * 225 >= result.words
            /\ result.minutes = 1 \/ (result.minutes - 1) * 225 < result.words
            /\ result.time = result.minutes * 60000
            /\ result.text = NumberToString(result.minutes)
                                \o <<" ", "m", "i", "n", " ", "r", "e", "a", "d">>
            /\ result.words = 450 => result.minutes = 2
            /\ result.words = 225 => result.minutes = 1

\* C21 witness: a text of 450 plain words, read in 2 minutes.
C21_Witness ==
    /\ call.op = "calculateReadingTime"
    /\ call.content.t = "string"
    /\ IsPlainWords(call.content.s)
    /\ NumberOfWords(call.content.s) = 450
    /\ result.minutes = 2
    /\ result.words = 450
    /\ result.text = <<"2", " ", "m", "i", "n", " ", "r", "e", "a", "d">>

\* C22 as claimed: both getReadingTime return the estimate only when it has
\* a non-empty, non-placeholder text and numeric minutes, time and words;
\* otherwise calculateReadingTime(rawText) when raw text is given, otherwise
\* the 1-minute default.
C22_EstimateNeedsAllFour ==
    call.op = "getReadingTime" =>
        IF /\ call.remarkData # Null
           /\ call.remarkData[1].readingTime.t = "object"
           /\ call.remarkData[1].readingTime.text.t = "string"
           /\ call.remarkData[1].readingTime.text.s \notin {<<>>, Read0}
           /\ call.remarkData[1].readingTime.minutes = Num(3)
           /\ call.remarkData[1].readingTime.time = Num(180000)
           /\ call.remarkData[1].readingTime.words = Num(600)
        THEN result = call.remarkData[1].readingTime
        ELSE IF call.content # UndefinedValue
        THEN result = ObjectOf(calculateReadingTime(call.content))
        ELSE result = ObjectOf(DefaultReadingTime)

(***************************************************************************)
(* Breadcrumbs (commonFunctions.ts, content.utils.ts).  A pathname is a    *)
(* string over the letters a and b, the hyphen and the slash.              *)
(***************************************************************************)
\* c.toUpperCase()
ToUpperCase(c) == CASE c = "a" -> "A" [] c = "b" -> "B" [] OTHER -> c

\* str.charAt(0).toUpperCase() + str.slice(1)
capitalize(str) ==
    IF str = <<>> THEN <<>> ELSE <<ToUpperCase(Head(str))>> \o Tail(str)

\* str.split(sep) for a separator of one character
RECURSIVE SplitOn(_, _)
SplitOn(str, sep) ==
    IF \A i \in DOMAIN str : str[i] # sep THEN <<str>>
    ELSE <<SubSeq(str, 1, (CHOOSE k \in DOMAIN str :
                              /\ str[k] = sep
                              /\ \A m \in 1..(k - 1) : str[m] # sep) - 1)>>
         \o SplitOn(SubSeq(str, (CHOOSE k \in DOMAIN str :
                                    /\ str[k] = sep
                                    /\ \A m \in 1..(k - 1) : str[m] # sep) + 1,
                           Len(str)),
                    sep)

\* words.join(sep)
RECURSIVE JoinWith(_, _)
JoinWith(words, sep) ==
    IF words = <<>> THEN <<>>
    ELSE IF Len(words) = 1 THEN words[1]
    ELSE words[1] \o <<sep>> \o JoinWith(Tail(words), sep)

CapitalizeAll(words) == [i \in DOMAIN words |-> capitalize(words[i])]

slugToTitle(slug) == JoinWith(CapitalizeAll(SplitOn(slug, "-")), " ")

\* pathname.replace(/^\/|\/$/g, ''): the '/' at the start and the '/' at
\* the end are removed, one of each
StripOuterSlash(pathname) ==
    SubSeq(pathname,
           IF pathname # <<>> /\ pathname[1] = "/" THEN 2 ELSE 1,
           IF Len(pathname) > 1 /\ pathname[Len(pathname)] = "/"
           THEN Len(pathname) - 1 ELSE Len(pathname))

\* currentPath after the first i parts: '/' + part, i times
RECURSIVE CurrentPath(_, _)
CurrentPath(parts, i) ==
    IF i = 0 THEN <<>>
    ELSE CurrentPath(parts, i - 1) \o <<"/">> \o parts[i]

\* the breadcrumbs pushed for the parts; href is undefined for the last
BreadcrumbsOf(parts) ==
    IF parts[1] = <<>> THEN <<>>
    ELSE [index \in DOMAIN parts |->
             [label |-> slugToTitle(parts[index]),
              href |-> IF index = Len(parts) THEN Null
                       ELSE Some(CurrentPath(parts, index))]]

getBreadcrumbsFromPath(pathname) ==
    BreadcrumbsOf(SplitOn(StripOuterSlash(pathname), "/"))

(***************************************************************************)
(* Breadcrumbs as a state machine: getBreadcrumbsFromPath is called with   *)
(* any pathname.                                                           *)
(***************************************************************************)
Pathnames == SeqsUpTo({"a", "b", "-", "/"}, MaxPathLen)

InitPath ==
    /\ entries = <<>>
    /\ loaded = <<>>
    /\ prod = FALSE
    /\ call = NoCall
    /\ result = <<>>
    /\ service = NewThemeService
    /\ browser = BlankPage

GetBreadcrumbsFromPath ==
    \E pathname \in Pathnames :
        /\ call' = [op |-> "getBreadcrumbsFromPath", pathname |-> pathname]
        /\ result' = getBreadcrumbsFromPath(pathname)
        /\ UNCHANGED <<entries, loaded, prod, service, browser>>

NextPath == call = NoCall /\ GetBreadcrumbsFromPath

SpecPath == InitPath /\ [][NextPath]_vars

\* the pathname without the '/' characters before and after its segments
Segments(pathname) ==
    IF \A i \in DOMAIN pathname : pathname[i] = "/" THEN <<>>
    ELSE SubSeq(pathname,
                CHOOSE i \in DOMAIN pathname :
                    pathname[i] # "/" /\ \A j \in 1..(i - 1) : pathname[j] = "/",
                CHOOSE i \in DOMAIN pathname :
                    /\ pathname[i] # "/"
                    /\ \A j \in (i + 1)..Len(pathname) : pathname[j] = "/")

\* the segments are joined by single '/'
SingleSlashes(core) ==
    \A i \in 1..(Len(core) - 1) : ~(core[i] = "/" /\ core[i + 1] = "/")

\* where the i-th segment of core ends
SegmentEnd(core, i) ==
    CHOOSE e \in 1..Len(core) :
        /\ e = Len(core) \/ core[e + 1] = "/"
        /\ core[e] # "/"
        /\ Cardinality({m \in 1..e : core[m] = "/"}) = i - 1

\* where the i-th segment of core starts
SegmentStart(core, i) ==
    CHOOSE b \in 1..Len(core) :
        /\ b = 1 \/ core[b - 1] = "/"
        /\ core[b] # "/"
        /\ Cardinality({m \in 1..b : core[m] = "/"}) = i - 1

\* label is the title-cased segment: hyphens are spaces, the first letter
\* of every word is upper case
IsTitleOf(label, segment) ==
    /\ Len(label) = Len(segment)
    /\ \A j \in DOMAIN segment :
          label[j] = IF segment[j] = "-" THEN " "
                     ELSE IF j = 1 \/ segment[j - 1] = "-"
                          THEN ToUpperCase(segment[j])
                     ELSE segment[j]

\* the breadcrumbs claimed for k segments joined by single '/'
IsBreadcrumbsOf(items, core) ==
    /\ Len(items) = Cardinality({m \in DOMAIN core : core[m] = "/"}) + 1
    /\ \A i \in DOMAIN items :
          /\ IsTitleOf(items[i].label,
                       SubSeq(core, SegmentStart(core, i), SegmentEnd(core, i)))
          /\ items[i].href =
                 IF i = Len(items) THEN Null
                 ELSE Some(<<"/">> \o SubSeq(core, 1, SegmentEnd(core, i)))

\* C23 as claimed: for k >= 1 non-empty segments joined by single '/' with
\* any number of '/' before and after, getBreadcrumbsFromPath returns k
\* items in segment order, item i labelled with the title-cased segment,
\* items 1..k-1 with href '/' + the first i segments, the last without href;
\* a pathname with no non-empty segment returns the empty list.
C23_Breadcrumbs ==
    call.op = "getBreadcrumbsFromPath" =>
        IF Segments(call.pathname) = <<>> THEN result = <<>>
        ELSE SingleSlashes(Segments(call.pathname)) =>
                 IsBreadcrumbsOf(result, Segments(call.pathname))

(***************************************************************************)
(* slugify (commonFunctions.ts).  A text is a string over the letters a    *)
(* and B, the digit 1, the underscore, the hyphen, the space and '!'.      *)
(***************************************************************************)
\* c.toLowerCase()
ToLowerCase(c) == CASE c = "A" -> "a" [] c = "B" -> "b" [] OTHER -> c

LowerCased(s) == [i \in DOMAIN s |-> ToLowerCase(s[i])]

\* \w
IsWordChar(c) ==
    c \in {"a", "b", "A", "B", "_",
           "0", "1", "2", "3", "4", "5", "6", "7", "8", "9"}

\* every maximal run of characters of the set run becomes the character to
RunsTo(s, run, to) ==
    [i \in DOMAIN SelectSeq(Positions(s),
                            LAMBDA p : ~(s[p] \in run /\ p > 1 /\ s[p - 1] \in run))
        |-> IF s[SelectSeq(Positions(s),
                     LAMBDA p : ~(s[p] \in run /\ p > 1 /\ s[p - 1] \in run))[i]]
                  \in run
            THEN to
            ELSE s[SelectSeq(Positions(s),
                     LAMBDA p : ~(s[p] \in run /\ p > 1 /\ s[p - 1] \in run))[i]]]

\* .replace(/[^\w-]+/g, '')
StripNonWord(s) == SelectSeq(s, LAMBDA c : IsWordChar(c) \/ c = "-")

\* .replace(/^-+/, '') alone (mutant of TrimHyphens)
TrimLeadingHyphens(s) ==
    IF \A i \in DOMAIN s : s[i] = "-" THEN <<>>
    ELSE SubSeq(s,
                CHOOSE i \in DOMAIN s :
                    s[i] # "-" /\ \A j \in 1..(i - 1) : s[j] = "-",
                Len(s))

\* .replace(/^-+/, '').replace(/-+$/, '')
TrimHyphens(s) ==
    IF \A i \in DOMAIN s : s[i] = "-" THEN <<>>
    ELSE SubSeq(s,
                CHOOSE i \in DOMAIN s :
                    s[i] # "-" /\ \A j \in 1..(i - 1) : s[j] = "-",
                CHOOSE i \in DOMAIN s :
                    s[i] # "-" /\ \A j \in (i + 1)..Len(s) : s[j] = "-")

slugify(inputText) ==
    IF inputText.t # "string" \/ inputText.s = <<>> THEN <<>>
    ELSE TrimHyphens(
             RunsTo(StripNonWord(
                        RunsTo(LowerCased(Trim(LowerCased(inputText.s))),
                               {" ", "\n"}, "-")),
                    {"-"}, "-"))

(***************************************************************************)
(* slugify as a state machine: slugify is called with any text or with     *)
(* nothing.                                                                *)
(***************************************************************************)
SlugTexts == SeqsUpTo({"a", "B", "1", "_", "-", " ", "!"}, MaxSlugLen)

InitSlug ==
    /\ entries = <<>>
    /\ loaded = <<>>
    /\ prod = FALSE
    /\ call = NoCall
    /\ result = <<>>
    /\ service = NewThemeService
    /\ browser = BlankPage

Slugify ==
    \E inputText \in {Str(text) : text \in SlugTexts} \cup {UndefinedValue} :
        /\ call' = [op |-> "slugify", inputText |-> inputText]
        /\ result' = slugify(inputText)
        /\ UNCHANGED <<entries, loaded, prod, service, browser>>

NextSlug == call = NoCall /\ Slugify

SpecSlug == InitSlug /\ [][NextSlug]_vars

\* C24: slugify returns a string made only of lowercase letters, digits,
\* underscores and hyphens, with no two consecutive hyphens and no hyphen at
\* the start or end; slugify(slugify(t)) = slugify(t).
C24_SlugShape ==
    call.op = "slugify" =>
        /\ \A i \in DOMAIN result :
              result[i] \in {"a", "b", "_", "-",
                             "0", "1", "2", "3", "4", "5", "6", "7", "8", "9"}
        /\ \A i \in 1..(Len(result) - 1) :
              ~(result[i] = "-" /\ result[i + 1] = "-")
        /\ result # <<>> => result[1] # "-" /\ result[Len(result)] # "-"
        /\ slugify(Str(result)) = result

\* C24 witness: hyphens brought together by a removed '!' are collapsed.
C24_Witness ==
    /\ call.op = "slugify"
    /\ call.inputText = Str(<<"B", "-", "!", "-", "a">>)
    /\ result = <<"b", "-", "a">>

(***************************************************************************)
(* ThemeService (theme.client.ts).  A theme name, a stored item or an      *)
(* attribute is a string, or null; a mode is "light", "dark" or "auto".    *)
(* An operation returns the service, the page, what the subscribed         *)
(* callbacks received and its return value.                                *)
(***************************************************************************)
\* x || d
OrDefault(x, d) == IF x = Null \/ x = Some("") THEN d ELSE x[1]

\* the callbacks that components subscribe
Callbacks == {"toggle", "icon"}

Outcome(svc, br, received, v) ==
    [service |-> svc, browser |-> br, received |-> received, v |-> v]

\* no callback was called
NoneReceived == [callback \in Callbacks |-> <<>>]

getStoredMode(svc, br) ==
    IF br.storage = Null \/ br.storage = Some("") THEN Null
    ELSE IF br.storage[1] \in {"auto", "system"} THEN Some("auto")
    ELSE IF br.storage[1] = svc.darkTheme THEN Some("dark")
    ELSE Some("light")

applySystemTheme(svc, br) ==
    [br EXCEPT !.themeAttr =
        Some(IF br.prefersDark THEN svc.darkTheme ELSE svc.lightTheme)]

applyTheme(svc, br, mode) ==
    IF mode = "auto" THEN applySystemTheme(svc, br)
    ELSE IF mode = "dark" THEN [br EXCEPT !.themeAttr = Some(svc.darkTheme)]
    ELSE [br EXCEPT !.themeAttr = Some(svc.lightTheme)]

\* the value setTheme hands to localStorage.setItem
PersistedName(svc, mode) ==
    IF mode = "auto" THEN "auto"
    ELSE IF mode = "dark" THEN svc.darkTheme
    ELSE svc.lightTheme

\* listeners.forEach(callback => callback(mode))
notifyListeners(svc, mode) ==
    [callback \in Callbacks |->
        IF callback \in svc.listeners THEN <<mode>> ELSE <<>>]

setTheme(svc, br, mode) ==
    Outcome(svc,
            applyTheme(svc,
                       [br EXCEPT !.storage = Some(PersistedName(svc, mode))],
                       mode),
            notifyListeners(svc, mode),
            Null)

themeOrder == <<"light", "dark", "auto">>

\* the mode after the other mode, light and dark alone (mutant of NextMode)
NextModeToggle(currentMode) == IF currentMode = "light" THEN "dark" ELSE "light"

\* themeOrder[(themeOrder.indexOf(currentMode) + 1) % themeOrder.length]
NextMode(currentMode) ==
    themeOrder[(((CHOOSE i \in DOMAIN themeOrder :
                      themeOrder[i] = currentMode) - 1 + 1)
                % Len(themeOrder)) + 1]

\* setTheme(nextMode); return nextMode
SetAndReturn(svc, br, nextMode) ==
    [setTheme(svc, br, nextMode) EXCEPT !.v = Some(nextMode)]

cycleTheme(svc, br) ==
    SetAndReturn(svc, br, NextMode(OrDefault(getStoredMode(svc, br), "light")))

\* the fields init reads from the document attributes
Configured(svc, br) ==
    [svc EXCEPT !.darkTheme = OrDefault(br.darkThemeAttr, "dark"),
                !.lightTheme = OrDefault(br.lightThemeAttr, "light"),
                !.defaultTheme = OrDefault(br.themeAttr, "auto")]

\* the stored theme or the default is applied
ApplyStoredOrDefault(svc, br) ==
    IF getStoredMode(svc, br) = Null
    THEN setTheme(svc, br, svc.defaultTheme)
    ELSE Outcome(svc, applyTheme(svc, br, getStoredMode(svc, br)[1]),
                 NoneReceived, Null)

\* addEventListener('change', ...) and initialized = true
Listening(applied) ==
    [applied EXCEPT !.browser.changeListeners = @ + 1,
                    !.service.initialized = TRUE]

\* init without the test of initialized (mutant of init)
initAgain(svc, br) ==
    Listening(ApplyStoredOrDefault(Configured(svc, br), br))

init(svc, br) ==
    IF svc.initialized THEN Outcome(svc, br, NoneReceived, Null)
    ELSE Listening(ApplyStoredOrDefault(Configured(svc, br), br))

\* the change listener registered by init
OnChange(svc, br) ==
    IF getStoredMode(svc, br) = Some("auto")
    THEN applySystemTheme(svc, br)
    ELSE br

\* the first n change listeners of the media query have run
RECURSIVE DispatchChange(_, _, _)
DispatchChange(svc, br, n) ==
    IF n = 0 THEN br ELSE OnChange(svc, DispatchChange(svc, br, n - 1))

subscribe(svc, callback) == [svc EXCEPT !.listeners = @ \cup {callback}]

\* the function subscribe returned
unsubscribe(svc, callback) == [svc EXCEPT !.listeners = @ \ {callback}]

(***************************************************************************)
(* The theme service as a state machine: the page is loaded with any       *)
(* theme attributes and stored item; init, setTheme, cycleTheme, subscribe *)
(* and the returned unsubscribe are called and the system colour scheme    *)
(* changes, in any order.  A call records what it found before it.         *)
(***************************************************************************)
Pages ==
    [darkThemeAttr : {Null, Some("night"), Some("system")},
     lightThemeAttr : {Null, Some("night"), Some("auto")},
     themeAttr : {Null, Some("dark")},
     storage : {Null, Some("system"), Some("night")},
     prefersDark : BOOLEAN,
     changeListeners : {0}]

InitTheme ==
    /\ entries = <<>>
    /\ loaded = <<>>
    /\ prod = FALSE
    /\ call = NoCall
    /\ result = <<>>
    /\ service = NewThemeService
    /\ browser \in Pages

\* what a call finds
Before ==
    [stored |-> getStoredMode(service, browser),
     themeAttr |-> browser.themeAttr,
     changeListeners |-> browser.changeListeners,
     initialized |-> service.initialized]

ThemeInit ==
    /\ call' = [op |-> "init", before |-> Before]
    /\ service' = init(service, browser).service
    /\ browser' = init(service, browser).browser
    /\ result' = [v |-> Null, received |-> init(service, browser).received]
    /\ UNCHANGED <<entries, loaded, prod>>

SetTheme ==
    \E mode \in {"light", "dark", "auto"} :
        /\ call' = [op |-> "setTheme", mode |-> mode, before |-> Before]
        /\ service' = setTheme(service, browser, mode).service
        /\ browser' = setTheme(service, browser, mode).browser
        /\ result' = [v |-> Null,
                      received |-> setTheme(service, browser, mode).received]
        /\ UNCHANGED <<entries, loaded, prod>>

CycleTheme ==
    /\ call' = [op |-> "cycleTheme", before |-> Before]
    /\ service' = cycleTheme(service, browser).service
    /\ browser' = cycleTheme(service, browser).browser
    /\ result' = [v |-> cycleTheme(service, browser).v,
                  received |-> cycleTheme(service, browser).received]
    /\ UNCHANGED <<entries, loaded, prod>>

Subscribe ==
    \E callback \in Callbacks :
        /\ call' = [op |-> "subscribe", callback |-> callback, before |-> Before]
        /\ service' = subscribe(service, callback)
        /\ result' = [v |-> Null, received |-> NoneReceived]
        /\ UNCHANGED <<entries, loaded, prod, browser>>

\* the function subscribe returned is called, the callback still subscribed
\* (a later call of it deletes nothing)
Unsubscribe ==
    \E callback \in service.listeners :
        /\ call' = [op |-> "unsubscribe", callback |-> callback,
                    before |-> Before]
        /\ service' = unsubscribe(service, callback)
        /\ result' = [v |-> Null, received |-> NoneReceived]
        /\ UNCHANGED <<entries, loaded, prod, browser>>

\* the system colour scheme changes and the change listeners run
SystemPreferenceChange ==
    /\ call' = [op |-> "change", before |-> Before]
    /\ browser' = DispatchChange(service,
                                 [browser EXCEPT !.prefersDark = ~@],
                                 browser.changeListeners)
    /\ result' = [v |-> Null, received |-> NoneReceived]
    /\ UNCHANGED <<entries, loaded, prod, service>>

NextTheme ==
    \/ ThemeInit
    \/ SetTheme
    \/ CycleTheme
    \/ Subscribe
    \/ Unsubscribe
    \/ SystemPreferenceChange

SpecTheme == InitTheme /\ [][NextTheme]_vars

\* the theme names are distinct and neither is 'auto' or 'system'
ProperNames(svc) ==
    /\ svc.darkTheme # svc.lightTheme
    /\ svc.darkTheme \notin {"auto", "system"}
    /\ svc.lightTheme \notin {"auto", "system"}

\* the stored mode after three calls of cycleTheme
StoredAfterThree(svc, br) ==
    getStoredMode(
        svc,
        cycleTheme(svc,
                   cycleTheme(svc, cycleTheme(svc, br).browser).browser).browser)

\* C28: with distinct light and dark theme names, neither 'auto' nor
\* 'system', cycleTheme stores and returns the successor of the stored mode
\* in the order light, dark, auto, light (nothing stored counts as light),
\* and three consecutive calls bring the stored mode back.
C28_CycleOrder ==
    ProperNames(service) =>
        /\ call.op = "cycleTheme" =>
              /\ result.v =
                     Some(CASE OrDefault(call.before.stored, "light") = "light"
                                   -> "dark"
                            [] OrDefault(call.before.stored, "light") = "dark"
                                   -> "auto"
                            [] OrDefault(call.before.stored, "light") = "auto"
                                   -> "light")
              /\ getStoredMode(service, browser) = result.v
        /\ OrDefault(StoredAfterThree(service, browser), "light")
               = OrDefault(getStoredMode(service, browser), "light")

\* C28 witness: cycleTheme went from dark to auto, with the page's own names.
C28_Witness ==
    /\ call.op = "cycleTheme"
    /\ service.initialized
    /\ service.darkTheme = "night"
    /\ call.before.stored = Some("dark")
    /\ result.v = Some("auto")
    /\ browser.storage = Some("auto")

\* C29: after init, a system preference change sets the applied data-theme
\* to the theme of the new preference when the stored mode is auto and
\* leaves it unchanged when the stored mode is light or dark; init called
\* again registers no second change listener.
C29_SystemChange ==
    /\ (call.op = "change" /\ service.initialized) =>
          IF call.before.stored = Some("auto")
          THEN browser.themeAttr =
                   Some(IF browser.prefersDark THEN service.darkTheme
                        ELSE service.lightTheme)
          ELSE browser.themeAttr = call.before.themeAttr
    /\ (call.op = "init" /\ call.before.initialized) =>
          browser.changeListeners = call.before.changeListeners
    /\ service.initialized => browser.changeListeners = 1

\* C29 witness: in mode auto the preference changed to dark after init and
\* the dark theme of the page is applied.
C29_Witness ==
    /\ call.op = "change"
    /\ service.initialized
    /\ call.before.stored = Some("auto")
    /\ call.before.themeAttr = Some("light")
    /\ browser.prefersDark
    /\ browser.themeAttr = Some("night")

\* C30 as claimed: for any theme names read at init and any mode m, after
\* setTheme(m) getStoredMode() is m, the applied data-theme is the dark or
\* the light theme name and never 'auto', and every subscribed callback was
\* called exactly once, with m.
C30_SetThemeRoundTrip ==
    (call.op = "setTheme" /\ service.initialized) =>
        /\ getStoredMode(service, browser) = Some(call.mode)
        /\ browser.themeAttr \in {Some(service.darkTheme), Some(service.lightTheme)}
        /\ browser.themeAttr # Some("auto")
        /\ \A callback \in service.listeners :
               result.received[callback] = <<call.mode>>

============================================================================
